---- MODULE Spec2Model ----
(***************************************************************************)
(* The NAPLAN data processing script of school-map: it joins the scraped   *)
(* school profiles (scraper/output/*.json) to the catchment features       *)
(* (catchments.geojson) through the school database (schools.json), first  *)
(* by centre code and then, as a fallback, by name.                        *)
(*                                                                         *)
(* Spec is the script on its three inputs and CommaSpec the script on      *)
(* profile names with text after a comma. NameSpec runs the chains of      *)
(* string calls that the scripts and the site loader normalize names with, *)
(* one call at a time; CodeSpec parses one state code and one centre code. *)
(*                                                                         *)
(* JavaScript strings that the script takes apart (names, codes) are       *)
(* sequences of one-character strings; strings it only compares (ACARA     *)
(* ids, table labels) are TLA+ strings.                                    *)
(***************************************************************************)
EXTENDS Integers, Sequences, FiniteSets, TLC

VARIABLES pc, schools, geoJson, scraperFiles,
          acaraToStateId, codeToGeoName, normGeoNameMap,
          k, linkedName, nameTried, finalData, stats, outputFile, exitCode

\* One run of a name-replacement chain on one name, replayed a second time on
\* its own result.
VARIABLES chain, original, text, op, applications, firstResult

\* One state code of the school database and one centre code of a description
\* table, and what the script makes of them.
VARIABLES registryCode, blobCode, registryKey, blobKey

\* The scripts that maintain schools.json: the catchments found without data,
\* the ACARA ids found for them, the records to add, the updates to apply.
VARIABLES missingSchools, foundIds, schoolsToAdd, updates

\* The batch mode of the school scraper: the school list, the position in it,
\* the locals of the retry loop and of scrapeSchool, and the output directory.
VARIABLES batchPc, batchSchools, schoolIndex, attempts, success, skipped,
          failedSchools, outputDir

\* The property scraper's storage: the suburb files, their locks, the
\* processes that call SuburbStorage, and the combined file.
VARIABLES disk, flock, procs, combined

runVars == <<pc, schools, geoJson, scraperFiles,
             acaraToStateId, codeToGeoName, normGeoNameMap,
             k, linkedName, nameTried, finalData, stats, outputFile, exitCode>>
nameVars == <<chain, original, text, op, applications, firstResult>>
codeVars == <<registryCode, blobCode, registryKey, blobKey>>
registryVars == <<missingSchools, foundIds, schoolsToAdd, updates>>
batchVars == <<batchPc, batchSchools, schoolIndex, attempts, success, skipped,
               failedSchools, outputDir>>
storageVars == <<disk, flock, procs, combined>>
vars == <<runVars, nameVars, codeVars, registryVars, batchVars, storageVars>>

\* ------------------------------------------------------------------ bounds
MaxSchools == 1
MaxFeatures == 2
MaxFiles == 2
MaxPieces == 3
MaxCodeDigits == 3
MaxProcs == 2
MaxCalls == 2
MaxBatch == 2
Replays == 2

\* --------------------------------------------------------- JavaScript values
\* null and undefined, as values that no string (a sequence of characters) equals.
Null == <<"null">>
Undefined == <<"undefined">>
NaNString == <<"N", "a", "N">>
EmptyMap == [x \in {} |-> Null]

\* Map.prototype.set / obj[key] = value: a later value replaces an earlier one.
MapSet(m, key, value) ==
  [x \in (DOMAIN m) \cup {key} |-> IF x = key THEN value ELSE m[x]]

\* Map.prototype.get: undefined for a missing key.
MapGet(m, key) == IF key \in DOMAIN m THEN m[key] ELSE Undefined

\* ------------------------------------------------------------ string methods
ToLowerChar(c) ==
  CASE c = "A" -> "a" [] c = "B" -> "b" [] c = "C" -> "c" [] c = "D" -> "d"
    [] c = "E" -> "e" [] c = "F" -> "f" [] c = "G" -> "g" [] c = "H" -> "h"
    [] c = "I" -> "i" [] c = "J" -> "j" [] c = "K" -> "k" [] c = "L" -> "l"
    [] c = "M" -> "m" [] c = "N" -> "n" [] c = "O" -> "o" [] c = "P" -> "p"
    [] c = "Q" -> "q" [] c = "R" -> "r" [] c = "S" -> "s" [] c = "T" -> "t"
    [] c = "U" -> "u" [] c = "V" -> "v" [] c = "W" -> "w" [] c = "X" -> "x"
    [] c = "Y" -> "y" [] c = "Z" -> "z" [] OTHER -> c

\* String.prototype.toLowerCase
ToLowerCase(s) == [i \in 1..Len(s) |-> ToLowerChar(s[i])]

\* String.prototype.replace(/pat/g, rep) for a literal pattern: the matches are
\* found left to right and do not overlap.
RECURSIVE ReplaceAll(_, _, _)
ReplaceAll(s, pat, rep) ==
  IF Len(s) < Len(pat) THEN s
  ELSE IF SubSeq(s, 1, Len(pat)) = pat
       THEN rep \o ReplaceAll(SubSeq(s, Len(pat) + 1, Len(s)), pat, rep)
       ELSE <<Head(s)>> \o ReplaceAll(Tail(s), pat, rep)

\* String.prototype.split(',')[0]: the text before the first comma.
RECURSIVE BeforeComma(_)
BeforeComma(s) ==
  IF s = <<>> \/ Head(s) = "," THEN <<>>
  ELSE <<Head(s)>> \o BeforeComma(Tail(s))

RECURSIVE TrimStart(_)
TrimStart(s) ==
  IF s # <<>> /\ Head(s) = " " THEN TrimStart(Tail(s)) ELSE s

RECURSIVE TrimEnd(_)
TrimEnd(s) ==
  IF s # <<>> /\ s[Len(s)] = " " THEN TrimEnd(SubSeq(s, 1, Len(s) - 1)) ELSE s

\* String.prototype.trim
Trim(s) == TrimEnd(TrimStart(s))

\* ------------------------------------------------------------------ numbers
Digits == {"0", "1", "2", "3", "4", "5", "6", "7", "8", "9"}

DigitValue(c) ==
  CASE c = "0" -> 0 [] c = "1" -> 1 [] c = "2" -> 2 [] c = "3" -> 3
    [] c = "4" -> 4 [] c = "5" -> 5 [] c = "6" -> 6 [] c = "7" -> 7
    [] c = "8" -> 8 [] c = "9" -> 9

DigitChar(d) ==
  CASE d = 0 -> "0" [] d = 1 -> "1" [] d = 2 -> "2" [] d = 3 -> "3"
    [] d = 4 -> "4" [] d = 5 -> "5" [] d = 6 -> "6" [] d = 7 -> "7"
    [] d = 8 -> "8" [] d = 9 -> "9"

\* The leading digits of s.
RECURSIVE DigitPrefix(_)
DigitPrefix(s) ==
  IF s = <<>> \/ Head(s) \notin Digits THEN <<>>
  ELSE <<Head(s)>> \o DigitPrefix(Tail(s))

RECURSIVE DigitsValue(_, _)
DigitsValue(s, acc) ==
  IF s = <<>> THEN acc ELSE DigitsValue(Tail(s), 10 * acc + DigitValue(Head(s)))

RECURSIVE NatToString(_)
NatToString(n) ==
  IF n < 10 THEN <<DigitChar(n)>>
  ELSE NatToString(n \div 10) \o <<DigitChar(n % 10)>>

\* parseInt(s, 10).toString(): the leading digits of s (after leading blanks)
\* read as a number and written without leading zeros; "NaN" when s does not
\* start with a digit.
ParseIntToString(s) ==
  LET d == DigitPrefix(TrimStart(s))
  IN IF d = <<>> THEN NaNString ELSE NatToString(DigitsValue(d, 0))

\* A value in a condition: null, undefined and the empty string are falsy.
Truthy(v) == v # Null /\ v # Undefined /\ v # <<>>

\* ------------------------------------------------------- the script's literals
SHS == <<"S", "H", "S">>
SS == <<"S", "S">>
StateHighSchool ==
  <<"S", "t", "a", "t", "e", " ", "H", "i", "g", "h", " ",
    "S", "c", "h", "o", "o", "l">>
StateSchool == <<"S", "t", "a", "t", "e", " ", "S", "c", "h", "o", "o", "l">>
LowerStateHighSchool ==
  <<"s", "t", "a", "t", "e", " ", "h", "i", "g", "h", " ",
    "s", "c", "h", "o", "o", "l">>
LowerStateSchool == <<"s", "t", "a", "t", "e", " ", "s", "c", "h", "o", "o", "l">>
LowerShs == <<"s", "h", "s">>
LowerSs == <<"s", "s">>
CentreCodeLabel == "Centre_code"

\* ------------------------------------------------------------------- inputs
\* schools.json: records of the school database. Two schools share a centre
\* code's digits, and one school occurs under two codes.
Code2324Padded == <<"0", "0", "0", "0", "0", "2", "3", "2", "4">>
Code517Padded == <<"0", "0", "0", "0", "0", "0", "5", "1", "7">>
SchoolRecords ==
  { [ACARAId |-> "47574", StateProvinceId |-> Code2324Padded],
    [ACARAId |-> "47574", StateProvinceId |-> Code517Padded],
    [ACARAId |-> "99999", StateProvinceId |-> Code2324Padded] }

\* catchments.geojson: a feature is its properties.name (never empty: the
\* conversion names a nameless feature 'Unknown') and the rows of the HTML
\* table in properties.description.value,
\* <tr><td>label</td><td>value</td></tr>.
NameASHS == <<"A", " ">> \o SHS
NameAStateHighSchool == <<"A", " ">> \o StateHighSchool
NameBss == <<"B", " ", "s", "s">>
NameRow == [label |-> "Name", value |-> <<"x">>]
NoCodeDescription == <<NameRow>>
Code2324Description ==
  <<NameRow, [label |-> CentreCodeLabel, value |-> <<"2", "3", "2", "4">>]>>
Code0517Description ==
  <<NameRow, [label |-> CentreCodeLabel, value |-> <<"0", "5", "1", "7">>]>>
Features ==
  { [name |-> NameASHS, description |-> Code2324Description],
    [name |-> NameAStateHighSchool, description |-> Code0517Description],
    [name |-> NameAStateHighSchool, description |-> Code2324Description],
    [name |-> NameBss, description |-> NoCodeDescription] }

\* scraper/output/*.json: a file that parses holds acaraId and schoolName; one
\* that does not makes JSON.parse throw.
Malformed == [wellFormed |-> FALSE, acaraId |-> "", schoolName |-> <<>>]
ScrapedFiles ==
  { [wellFormed |-> TRUE, acaraId |-> "47574",
     schoolName |-> NameASHS \o <<" ", ",", " ", "Q", "L", "D">>],
    [wellFormed |-> TRUE, acaraId |-> "99999", schoolName |-> NameAStateHighSchool],
    [wellFormed |-> TRUE, acaraId |-> "47574",
     schoolName |-> <<"B", " ">> \o StateSchool],
    Malformed }

SeqsUpTo(S, n) == UNION {[1..m -> S] : m \in 0..n}

\* ------------------------------------------------------- 2. Build Lookup Maps
\* schools.forEach: ACARA ID -> StateProvinceId without leading zeros.
RECURSIVE BuildAcaraToStateId(_)
BuildAcaraToStateId(ss) ==
  IF ss = <<>> THEN EmptyMap
  ELSE LET s == ss[Len(ss)]
           simpleId == ParseIntToString(s.StateProvinceId)
       IN MapSet(BuildAcaraToStateId(SubSeq(ss, 1, Len(ss) - 1)),
                 s.ACARAId, simpleId)

AllDigits(v) == v # <<>> /\ \A i \in 1..Len(v) : v[i] \in Digits

\* description.match(/Centre_code<\/td><td>(\d+)<\/td>/): the digits of the
\* first Centre_code row whose value is all digits, or null.
MatchCentreCode(description) ==
  LET hits == {i \in 1..Len(description) :
                 /\ description[i].label = CentreCodeLabel
                 /\ AllDigits(description[i].value)}
  IN IF hits = {} THEN Null
     ELSE description[CHOOSE i \in hits : \A j \in hits : i <= j].value

\* ExtractCode that returns the digits of the blob as they stand (no parseInt).
ExtractCode_Raw(description) == MatchCentreCode(description)

\* The feature's centre code as the script keys it, or null.
ExtractCode(description) ==
  LET match == MatchCentreCode(description)
  IN IF match # Null THEN ParseIntToString(match) ELSE Null

\* IndexCode with the digits of the blob used as they stand (no parseInt).
IndexCode_RawCode(c2g, f) ==
  LET match == MatchCentreCode(f.description)
  IN IF match # Null THEN MapSet(c2g, match, f.name) ELSE c2g

\* IndexCode that leaves a code to the feature that had it first.
IndexCode_KeepFirst(c2g, f) ==
  LET code == ExtractCode(f.description)
  IN IF code # Null /\ code \notin DOMAIN c2g THEN MapSet(c2g, code, f.name) ELSE c2g

\* One round of geoJson.features.forEach on codeToGeoName.
IndexCode(c2g, f) ==
  LET code == ExtractCode(f.description)
  IN IF code # Null THEN MapSet(c2g, code, f.name) ELSE c2g

RECURSIVE BuildCodeToGeoName(_)
BuildCodeToGeoName(fs) ==
  IF fs = <<>> THEN EmptyMap
  ELSE IndexCode(BuildCodeToGeoName(SubSeq(fs, 1, Len(fs) - 1)), fs[Len(fs)])

\* name.replace(/SHS/g, ..).replace(/SS/g, ..).toLowerCase()
NormGeoName(name) ==
  ToLowerCase(ReplaceAll(ReplaceAll(name, SHS, StateHighSchool), SS, StateSchool))

\* IndexName with the two name keys set only for a feature that has a code.
IndexName_OnlyWithCode(ngm, f) ==
  IF ExtractCode(f.description) # Null
  THEN MapSet(MapSet(ngm, NormGeoName(f.name), f.name),
              ToLowerCase(f.name), f.name)
  ELSE ngm

\* One round of geoJson.features.forEach on normGeoNameMap.
IndexName(ngm, f) ==
  MapSet(MapSet(ngm, NormGeoName(f.name), f.name), ToLowerCase(f.name), f.name)

RECURSIVE BuildNormGeoNameMap(_)
BuildNormGeoNameMap(fs) ==
  IF fs = <<>> THEN EmptyMap
  ELSE IndexName(BuildNormGeoNameMap(SubSeq(fs, 1, Len(fs) - 1)), fs[Len(fs)])

\* ----------------------------------------------------- 3. Process Scraped Data
\* Strategy 1: Link via Code.
CodeStrategy(a2s, c2g, acaraId) ==
  LET stateId == MapGet(a2s, acaraId)
  IN IF Truthy(stateId) /\ stateId \in DOMAIN c2g THEN c2g[stateId] ELSE Null

\* NormScraped without toLowerCase().
NormScraped_CaseSensitive(schoolName) == Trim(BeforeComma(schoolName))

\* NormScraped that takes the whole schoolName (no split(',')[0]).
NormScraped_WholeName(schoolName) == ToLowerCase(Trim(schoolName))

NormScraped(schoolName) == ToLowerCase(Trim(BeforeComma(schoolName)))

Variant(normScraped) ==
  ReplaceAll(ReplaceAll(normScraped, LowerStateHighSchool, LowerShs),
             LowerStateSchool, LowerSs)

\* Strategy 2: Link via Name.
NameStrategy(ngm, schoolName) ==
  LET normScraped == NormScraped(schoolName)
      variant == Variant(normScraped)
  IN IF normScraped \in DOMAIN ngm THEN ngm[normScraped]
     ELSE IF variant \in DOMAIN ngm THEN ngm[variant]
     ELSE Null

\* LinkProfile that counts a file as unlinked whenever the code path missed.
LinkProfile_UnlinkedOnCodeMiss(a2s, c2g, ngm, content) ==
  LET byCodeName == CodeStrategy(a2s, c2g, content.acaraId)
      fallback == ~Truthy(byCodeName)
      byNameName == IF fallback THEN NameStrategy(ngm, content.schoolName) ELSE Null
      linked == IF byNameName # Null THEN byNameName ELSE byCodeName
  IN [linkedName |-> linked,
      nameTried |-> fallback,
      linkedByCode |-> IF byCodeName # Null THEN 1 ELSE 0,
      linkedByName |-> IF byNameName # Null THEN 1 ELSE 0,
      unlinked |-> IF Truthy(byCodeName) THEN 0 ELSE 1]

\* LinkProfile with the name path tried first and the code path as the fallback.
LinkProfile_NameFirst(a2s, c2g, ngm, content) ==
  LET byNameName == NameStrategy(ngm, content.schoolName)
      fallback == ~Truthy(byNameName)
      byCodeName == IF fallback THEN CodeStrategy(a2s, c2g, content.acaraId) ELSE Null
      linked == IF byNameName # Null THEN byNameName ELSE byCodeName
  IN [linkedName |-> linked,
      nameTried |-> TRUE,
      linkedByCode |-> IF byCodeName # Null THEN 1 ELSE 0,
      linkedByName |-> IF byNameName # Null THEN 1 ELSE 0,
      unlinked |-> IF Truthy(linked) THEN 0 ELSE 1]

\* LinkProfile with the name path run, and counted, after a code link too.
LinkProfile_CountsBoth(a2s, c2g, ngm, content) ==
  LET byCodeName == CodeStrategy(a2s, c2g, content.acaraId)
      byNameName == NameStrategy(ngm, content.schoolName)
      linked == IF byCodeName # Null THEN byCodeName ELSE byNameName
  IN [linkedName |-> linked,
      nameTried |-> TRUE,
      linkedByCode |-> IF byCodeName # Null THEN 1 ELSE 0,
      linkedByName |-> IF byNameName # Null THEN 1 ELSE 0,
      unlinked |-> IF Truthy(linked) THEN 0 ELSE 1]

\* LinkProfile whose name lookup is not guarded by the code link and replaces it.
LinkProfile_NameOverrides(a2s, c2g, ngm, content) ==
  LET byCodeName == CodeStrategy(a2s, c2g, content.acaraId)
      byNameName == NameStrategy(ngm, content.schoolName)
      linked == IF byNameName # Null THEN byNameName ELSE byCodeName
  IN [linkedName |-> linked,
      nameTried |-> TRUE,
      linkedByCode |-> IF byCodeName # Null THEN 1 ELSE 0,
      linkedByName |-> IF byCodeName = Null /\ byNameName # Null THEN 1 ELSE 0,
      unlinked |-> IF Truthy(linked) THEN 0 ELSE 1]

\* LinkProfile that looks the name up for every file and uses what it found
\* only when the code path found nothing.
LinkProfile_AlwaysTriesName(a2s, c2g, ngm, content) ==
  LET byCodeName == CodeStrategy(a2s, c2g, content.acaraId)
      found == NameStrategy(ngm, content.schoolName)
      byNameName == IF ~Truthy(byCodeName) THEN found ELSE Null
      linked == IF byNameName # Null THEN byNameName ELSE byCodeName
  IN [linkedName |-> linked,
      nameTried |-> TRUE,
      linkedByCode |-> IF byCodeName # Null THEN 1 ELSE 0,
      linkedByName |-> IF byNameName # Null THEN 1 ELSE 0,
      unlinked |-> IF Truthy(linked) THEN 0 ELSE 1]

\* The callback of scraperFiles.forEach up to the write: the name it links the
\* file to (or null), whether it ran Strategy 2, and the counters it increments.
LinkProfile(a2s, c2g, ngm, content) ==
  LET byCodeName == CodeStrategy(a2s, c2g, content.acaraId)
      fallback == ~Truthy(byCodeName)
      byNameName == IF fallback THEN NameStrategy(ngm, content.schoolName) ELSE Null
      linked == IF byNameName # Null THEN byNameName ELSE byCodeName
  IN [linkedName |-> linked,
      nameTried |-> fallback,
      linkedByCode |-> IF byCodeName # Null THEN 1 ELSE 0,
      linkedByName |-> IF byNameName # Null THEN 1 ELSE 0,
      unlinked |-> IF Truthy(linked) THEN 0 ELSE 1]

\* The value stored under the linked name.
Entry(content) == [acaraId |-> content.acaraId, schoolName |-> content.schoolName]

\* StoreEntry without the if (linkedName) guard.
StoreEntry_Unguarded(fd, link, content) ==
  MapSet(fd, link.linkedName, Entry(content))

\* StoreEntry that keeps the entry a name already has.
StoreEntry_KeepFirst(fd, link, content) ==
  IF Truthy(link.linkedName) /\ link.linkedName \notin DOMAIN fd
  THEN MapSet(fd, link.linkedName, Entry(content)) ELSE fd

\* StoreEntry that keys the entry by the scraped schoolName.
StoreEntry_UnderSchoolName(fd, link, content) ==
  IF Truthy(link.linkedName) THEN MapSet(fd, content.schoolName, Entry(content))
  ELSE fd

\* if (linkedName) finalData[linkedName] = {...}
StoreEntry(fd, link, content) ==
  IF Truthy(link.linkedName) THEN MapSet(fd, link.linkedName, Entry(content)) ELSE fd

\* CountStats without the else branch (stats.unlinked++).
CountStats_LinksOnly(st, link) ==
  [st EXCEPT !.linkedByCode = @ + link.linkedByCode,
             !.linkedByName = @ + link.linkedByName]

CountStats(st, link) ==
  [st EXCEPT !.linkedByCode = @ + link.linkedByCode,
             !.linkedByName = @ + link.linkedByName,
             !.unlinked = @ + link.unlinked]

\* ------------------------------------------------------------------ the run
NotWritten == [written |-> FALSE, data |-> EmptyMap]
NoStats == [total |-> 0, linkedByCode |-> 0, linkedByName |-> 0, unlinked |-> 0]

\* No chain is run, no code is canonicalized.
NoChain ==
  /\ chain = "none"
  /\ original = <<>>
  /\ text = <<>>
  /\ op = 0
  /\ applications = 0
  /\ firstResult = Null
NoCodes ==
  /\ registryCode = <<>>
  /\ blobCode = <<>>
  /\ registryKey = Null
  /\ blobKey = Null

\* No maintenance script, no batch and no property scraper is at work.
NoRegistryWork ==
  /\ missingSchools = <<>>
  /\ foundIds = EmptyMap
  /\ schoolsToAdd = <<>>
  /\ updates = <<>>
NoBatch ==
  /\ batchPc = "idle"
  /\ batchSchools = <<>>
  /\ schoolIndex = 0
  /\ attempts = 0
  /\ success = FALSE
  /\ skipped = FALSE
  /\ failedSchools = <<>>
  /\ outputDir = EmptyMap
NotCombined == [state |-> "none", data |-> <<>>, count |-> 0]
NoStorage ==
  /\ disk = EmptyMap
  /\ flock = EmptyMap
  /\ procs = EmptyMap
  /\ combined = NotCombined
Init ==
  /\ pc = "load"
  /\ schools \in SeqsUpTo(SchoolRecords, MaxSchools)
  /\ geoJson \in SeqsUpTo(Features, MaxFeatures)
  /\ scraperFiles \in SeqsUpTo(ScrapedFiles, MaxFiles)
  /\ acaraToStateId = EmptyMap
  /\ codeToGeoName = EmptyMap
  /\ normGeoNameMap = EmptyMap
  /\ k = 0
  /\ linkedName = Null
  /\ nameTried = FALSE
  /\ finalData = EmptyMap
  /\ stats = NoStats
  /\ outputFile = NotWritten
  /\ exitCode = -1
  /\ NoChain
  /\ NoCodes
  /\ NoRegistryWork
  /\ NoBatch
  /\ NoStorage

\* 1. Load Data: the three inputs are read and parsed.
LoadData ==
  /\ pc = "load"
  /\ pc' = "build"
  /\ UNCHANGED <<schools, geoJson, scraperFiles, acaraToStateId, codeToGeoName,
                 normGeoNameMap, k, linkedName, nameTried, finalData, stats, outputFile,
                 exitCode>>
  /\ UNCHANGED <<nameVars, codeVars, registryVars, batchVars, storageVars>>

\* 1. Load Data throws (an input is unreadable or is no JSON): catch, exit(1).
LoadDataThrows ==
  /\ pc = "load"
  /\ pc' = "failed"
  /\ exitCode' = 1
  /\ UNCHANGED <<schools, geoJson, scraperFiles, acaraToStateId, codeToGeoName,
                 normGeoNameMap, k, linkedName, nameTried, finalData, stats, outputFile>>
  /\ UNCHANGED <<nameVars, codeVars, registryVars, batchVars, storageVars>>

\* 2. Build Lookup Maps, and the initial finalData and stats of step 3.
BuildLookupMaps ==
  /\ pc = "build"
  /\ acaraToStateId' = BuildAcaraToStateId(schools)
  /\ codeToGeoName' = BuildCodeToGeoName(geoJson)
  /\ normGeoNameMap' = BuildNormGeoNameMap(geoJson)
  /\ finalData' = EmptyMap
  /\ stats' = [NoStats EXCEPT !.total = Len(scraperFiles)]
  /\ pc' = "pass"
  /\ UNCHANGED <<schools, geoJson, scraperFiles, k, linkedName, nameTried, outputFile,
                 exitCode>>
  /\ UNCHANGED <<nameVars, codeVars, registryVars, batchVars, storageVars>>

\* ProcessFile that passes over a file whose entry finalData already holds
\* under the name it links to: nothing is stored and nothing counted.
ProcessFile_SkipsRepeat ==
  /\ pc = "pass"
  /\ k < Len(scraperFiles)
  /\ scraperFiles[k + 1].wellFormed
  /\ LET content == scraperFiles[k + 1]
         link == LinkProfile(acaraToStateId, codeToGeoName, normGeoNameMap, content)
         repeat == /\ Truthy(link.linkedName)
                   /\ MapGet(finalData, link.linkedName) = Entry(content)
     IN /\ linkedName' = link.linkedName
        /\ nameTried' = link.nameTried
        /\ finalData' = StoreEntry(finalData, link, content)
        /\ stats' = IF repeat THEN stats ELSE CountStats(stats, link)
  /\ k' = k + 1
  /\ UNCHANGED <<pc, schools, geoJson, scraperFiles, acaraToStateId,
                 codeToGeoName, normGeoNameMap, outputFile, exitCode>>
  /\ UNCHANGED <<nameVars, codeVars, registryVars, batchVars, storageVars>>

\* One round of scraperFiles.forEach on a file that parses.
ProcessFile ==
  /\ pc = "pass"
  /\ k < Len(scraperFiles)
  /\ scraperFiles[k + 1].wellFormed
  /\ LET content == scraperFiles[k + 1]
         link == LinkProfile(acaraToStateId, codeToGeoName, normGeoNameMap, content)
     IN /\ linkedName' = link.linkedName
        /\ nameTried' = link.nameTried
        /\ finalData' = StoreEntry(finalData, link, content)
        /\ stats' = CountStats(stats, link)
  /\ k' = k + 1
  /\ UNCHANGED <<pc, schools, geoJson, scraperFiles, acaraToStateId,
                 codeToGeoName, normGeoNameMap, outputFile, exitCode>>
  /\ UNCHANGED <<nameVars, codeVars, registryVars, batchVars, storageVars>>

\* ProcessFileThrows with the exception caught inside the callback: the file is
\* skipped and the loop goes on.
ProcessFileThrows_SkipsFile ==
  /\ pc = "pass"
  /\ k < Len(scraperFiles)
  /\ ~scraperFiles[k + 1].wellFormed
  /\ k' = k + 1
  /\ UNCHANGED <<pc, schools, geoJson, scraperFiles, acaraToStateId,
                 codeToGeoName, normGeoNameMap, linkedName, nameTried, finalData,
                 stats, outputFile, exitCode>>
  /\ UNCHANGED <<nameVars, codeVars, registryVars, batchVars, storageVars>>

\* ProcessFileThrows whose catch writes the mapping built so far before exit(1).
ProcessFileThrows_WritesPartial ==
  /\ pc = "pass"
  /\ k < Len(scraperFiles)
  /\ ~scraperFiles[k + 1].wellFormed
  /\ pc' = "failed"
  /\ exitCode' = 1
  /\ outputFile' = [written |-> TRUE, data |-> finalData]
  /\ UNCHANGED <<schools, geoJson, scraperFiles, acaraToStateId, codeToGeoName,
                 normGeoNameMap, k, linkedName, nameTried, finalData, stats>>
  /\ UNCHANGED <<nameVars, codeVars, registryVars, batchVars, storageVars>>

\* One round of scraperFiles.forEach on a file that does not parse: the
\* exception leaves the loop, catch, exit(1).
ProcessFileThrows ==
  /\ pc = "pass"
  /\ k < Len(scraperFiles)
  /\ ~scraperFiles[k + 1].wellFormed
  /\ pc' = "failed"
  /\ exitCode' = 1
  /\ UNCHANGED <<schools, geoJson, scraperFiles, acaraToStateId, codeToGeoName,
                 normGeoNameMap, k, linkedName, nameTried, finalData, stats, outputFile>>
  /\ UNCHANGED <<nameVars, codeVars, registryVars, batchVars, storageVars>>

\* 4. Output Result.
WriteOutput ==
  /\ pc = "pass"
  /\ k = Len(scraperFiles)
  /\ outputFile' = [written |-> TRUE, data |-> finalData]
  /\ exitCode' = 0
  /\ pc' = "done"
  /\ UNCHANGED <<schools, geoJson, scraperFiles, acaraToStateId, codeToGeoName,
                 normGeoNameMap, k, linkedName, nameTried, finalData, stats>>
  /\ UNCHANGED <<nameVars, codeVars, registryVars, batchVars, storageVars>>

Next ==
  \/ LoadData
  \/ LoadDataThrows
  \/ BuildLookupMaps
  \/ ProcessFile
  \/ ProcessFileThrows
  \/ WriteOutput

Spec == Init /\ [][Next]_vars

\* ------------------------------------------------- name-replacement chains
StateSecondaryCollege ==
  <<"S", "t", "a", "t", "e", " ", "S", "e", "c", "o", "n", "d", "a", "r", "y",
    " ", "C", "o", "l", "l", "e", "g", "e">>
CommunityCollege ==
  <<"C", "o", "m", "m", "u", "n", "i", "t", "y", " ", "C", "o", "l", "l", "e",
    "g", "e">>
LowerStateSecondaryCollege ==
  <<"s", "t", "a", "t", "e", " ", "s", "e", "c", "o", "n", "d", "a", "r", "y",
    " ", "c", "o", "l", "l", "e", "g", "e">>
LowerStateCollege ==
  <<"s", "t", "a", "t", "e", " ", "c", "o", "l", "l", "e", "g", "e">>
LowerHighSchool == <<"h", "i", "g", "h", " ", "s", "c", "h", "o", "o", "l">>
LowerSecondaryCollege ==
  <<"s", "e", "c", "o", "n", "d", "a", "r", "y", " ", "c", "o", "l", "l", "e",
    "g", "e">>

\* One method call of a chain: split(',')[0], trim(), toLowerCase() or
\* replace(/pat/g, rep).
SplitOp == [kind |-> "split", pat |-> <<>>, rep |-> <<>>]
TrimOp == [kind |-> "trim", pat |-> <<>>, rep |-> <<>>]
LowerOp == [kind |-> "lower", pat |-> <<>>, rep |-> <<>>]
ReplaceOp(pat, rep) == [kind |-> "replace", pat |-> pat, rep |-> rep]

\* The processing script: normScraped, then variant.
NaplanChain ==
  <<SplitOp, TrimOp, LowerOp,
    ReplaceOp(LowerStateHighSchool, LowerShs),
    ReplaceOp(LowerStateSchool, LowerSs)>>

\* The processing script's key for a boundary name.
GeoChain ==
  <<ReplaceOp(SHS, StateHighSchool), ReplaceOp(SS, StateSchool), LowerOp>>

\* check_overlap.js: rawName, then normalized.
OverlapChain ==
  <<SplitOp, TrimOp,
    ReplaceOp(StateHighSchool, SHS),
    ReplaceOp(StateSchool, SS),
    ReplaceOp(StateSecondaryCollege, StateSecondaryCollege),
    ReplaceOp(CommunityCollege, CommunityCollege)>>

\* SitesChain with the two rules that rewrite to shs in the other order.
SitesChain_ShortFirst ==
  <<LowerOp,
    ReplaceOp(LowerHighSchool, LowerShs),
    ReplaceOp(LowerStateSecondaryCollege, LowerStateSecondaryCollege),
    ReplaceOp(LowerStateCollege, LowerStateCollege),
    ReplaceOp(LowerStateHighSchool, LowerShs),
    ReplaceOp(LowerSecondaryCollege, LowerSecondaryCollege),
    TrimOp>>

\* findCatchmentByName: normalizedSearch.
SitesChain ==
  <<LowerOp,
    ReplaceOp(LowerStateHighSchool, LowerShs),
    ReplaceOp(LowerStateSecondaryCollege, LowerStateSecondaryCollege),
    ReplaceOp(LowerStateCollege, LowerStateCollege),
    ReplaceOp(LowerHighSchool, LowerShs),
    ReplaceOp(LowerSecondaryCollege, LowerSecondaryCollege),
    TrimOp>>

ChainNames == {"naplan", "geo", "overlap", "sites"}
ChainOps(c) ==
  CASE c = "naplan" -> NaplanChain
    [] c = "geo" -> GeoChain
    [] c = "overlap" -> OverlapChain
    [] c = "sites" -> SitesChain

\* The names the chains are run on: up to MaxPieces pieces in a row.
NamePieces ==
  {<<"A", " ">>, <<" ">>, <<",", " ", "Q", "L", "D">>,
   StateHighSchool, StateSchool, SHS, Tail(StateSchool)}

RECURSIVE Concat(_)
Concat(ps) == IF ps = <<>> THEN <<>> ELSE Head(ps) \o Concat(Tail(ps))

NameInputs == {Concat(ps) : ps \in SeqsUpTo(NamePieces, MaxPieces)}

\* The processing script is not running.
RunIdle ==
  /\ pc = "idle"
  /\ schools = <<>>
  /\ geoJson = <<>>
  /\ scraperFiles = <<>>
  /\ acaraToStateId = EmptyMap
  /\ codeToGeoName = EmptyMap
  /\ normGeoNameMap = EmptyMap
  /\ k = 0
  /\ linkedName = Null
  /\ nameTried = FALSE
  /\ finalData = EmptyMap
  /\ stats = NoStats
  /\ outputFile = NotWritten
  /\ exitCode = -1

NameInit ==
  /\ RunIdle
  /\ NoCodes
  /\ NoRegistryWork
  /\ NoBatch
  /\ NoStorage
  /\ chain \in ChainNames
  /\ original \in NameInputs
  /\ text = original
  /\ op = 0
  /\ applications = 0
  /\ firstResult = Null

\* The next method call of the chain, on the text so far.
NextOp == ChainOps(chain)[op + 1]
Calls(kind) ==
  /\ chain \in ChainNames
  /\ applications < Replays
  /\ op < Len(ChainOps(chain))
  /\ NextOp.kind = kind
Called ==
  /\ op' = op + 1
  /\ UNCHANGED <<chain, original, applications, firstResult>>
  /\ UNCHANGED <<runVars, codeVars, registryVars, batchVars, storageVars>>

SplitAtComma ==
  /\ Calls("split")
  /\ text' = BeforeComma(text)
  /\ Called

TrimText ==
  /\ Calls("trim")
  /\ text' = Trim(text)
  /\ Called

LowerCaseText ==
  /\ Calls("lower")
  /\ text' = ToLowerCase(text)
  /\ Called

ReplaceText ==
  /\ Calls("replace")
  /\ text' = ReplaceAll(text, NextOp.pat, NextOp.rep)
  /\ Called

\* The chain has returned; its result is the argument of the next run.
ChainReturns ==
  /\ chain \in ChainNames
  /\ applications < Replays
  /\ op = Len(ChainOps(chain))
  /\ applications' = applications + 1
  /\ firstResult' = IF applications = 0 THEN text ELSE firstResult
  /\ op' = 0
  /\ UNCHANGED <<chain, original, text>>
  /\ UNCHANGED <<runVars, codeVars, registryVars, batchVars, storageVars>>

NameNext ==
  \/ SplitAtComma
  \/ TrimText
  \/ LowerCaseText
  \/ ReplaceText
  \/ ChainReturns

NameSpec == NameInit /\ [][NameNext]_vars

\* ------------------------------------------------------- what the claims use
Max(S) == CHOOSE x \in S : \A y \in S : y <= x
Min(S) == CHOOSE x \in S : \A y \in S : x <= y

\* The pass has the lookup maps.
Matching == pc \in {"pass", "done"}

\* A step of the profile pass that handles file k + 1.
PassStep == pc = "pass" /\ k' = k + 1

\* The registry records of an ACARA id, by position; the one the script goes by
\* is the last (the only one when ACARA ids are unique).
RegistryPositions(acaraId) ==
  {i \in 1..Len(schools) : schools[i].ACARAId = acaraId}
HasRegistry(acaraId) == RegistryPositions(acaraId) # {}
CanonicalStateCode(acaraId) ==
  ParseIntToString(schools[Max(RegistryPositions(acaraId))].StateProvinceId)

\* The boundaries whose description blob carries a code, by position.
BoundariesWithCode(code) ==
  {i \in 1..Len(geoJson) : ExtractCode(geoJson[i].description) = code}
BoundaryNames == {geoJson[i].name : i \in 1..Len(geoJson)}
DistinctDisplayNames ==
  \A i, j \in 1..Len(geoJson) : geoJson[i].name = geoJson[j].name => i = j

\* The candidate name of a profile: the part before the first comma.
CandidateName(content) == Trim(BeforeComma(content.schoolName))

\* The boundaries the two paths resolve a profile to (null: none).
CodeTarget(content) == CodeStrategy(acaraToStateId, codeToGeoName, content.acaraId)
NameTarget(content) == NameStrategy(normGeoNameMap, content.schoolName)
Resolved(content) ==
  LinkProfile(acaraToStateId, codeToGeoName, normGeoNameMap, content).linkedName
BothAgree(content) ==
  CodeTarget(content) # Null /\ NameTarget(content) = CodeTarget(content)
BothDisagree(content) ==
  /\ CodeTarget(content) # Null
  /\ NameTarget(content) # Null
  /\ NameTarget(content) # CodeTarget(content)

CountedByCode == stats' = [stats EXCEPT !.linkedByCode = @ + 1]
CountedByName == stats' = [stats EXCEPT !.linkedByName = @ + 1]
CountedUnlinked == stats' = [stats EXCEPT !.unlinked = @ + 1]

\* -------------------------------------------------------------------- claims

\* C1: every profile the pass handles is counted under exactly one of linked by
\* code, linked by name and unlinked, so the three counts sum to the number of
\* profiles handled so far, and to the total once the pass is over.
C1_OneOutcomePerProfile ==
  /\ [](/\ stats.linkedByCode + stats.linkedByName + stats.unlinked = k
        /\ pc = "done" => k = stats.total /\ stats.total = Len(scraperFiles))
  /\ [][PassStep => (CountedByCode \/ CountedByName \/ CountedUnlinked)]_vars

C1_Witness ==
  /\ pc = "done"
  /\ stats.total = 2
  /\ stats.linkedByCode = 1
  /\ stats.linkedByName + stats.unlinked = 1

\* C2 as claimed: after the run every boundary feature is a key of the output
\* mapping.
C2_EveryBoundaryInOutput ==
  pc = "done" => BoundaryNames \subseteq DOMAIN outputFile.data

\* C2 as amended: after the run the keys of the output mapping are boundary
\* names, and exactly those some profile was linked to; a boundary no profile
\* matched has no entry.
C2_OnlyLinkedBoundariesInOutput ==
  pc = "done" =>
    /\ outputFile.written
    /\ DOMAIN outputFile.data \subseteq BoundaryNames
    /\ DOMAIN outputFile.data =
         {Resolved(scraperFiles[i]) : i \in 1..Len(scraperFiles)} \ {Null}

C2_Witness ==
  /\ pc = "done"
  /\ \E n \in BoundaryNames : n \notin DOMAIN outputFile.data
  /\ \E n \in BoundaryNames : n \in DOMAIN outputFile.data

\* C3 as claimed: a profile whose code path and name path resolve to different
\* boundaries is merged into neither and is not counted as a link.
C3_ConflictMergesNeither ==
  [][(PassStep /\ BothDisagree(scraperFiles[k + 1])) =>
       (finalData' = finalData /\ ~CountedByCode /\ ~CountedByName)]_vars

\* C3 as amended: such a profile is linked by code: the entry of the code
\* path's boundary A gets its data, every other entry (that of the name path's
\* boundary B too) stays as it was, and it is counted as one code link.
C3_DisagreementLinksByCode ==
  [][(PassStep /\ BothDisagree(scraperFiles[k + 1])) =>
       LET content == scraperFiles[k + 1]
       IN /\ linkedName' = CodeTarget(content)
          /\ finalData' = MapSet(finalData, CodeTarget(content), Entry(content))
          /\ CountedByCode]_vars

C3_Witness ==
  /\ pc = "pass"
  /\ k = 1
  /\ BothDisagree(scraperFiles[1])
  /\ stats.linkedByCode = 1
  /\ DOMAIN finalData = {CodeTarget(scraperFiles[1])}

\* C4 as claimed: an entry of the output mapping, once created, is left
\* unchanged for the rest of the pass.
C4_FirstClaimKept ==
  [][pc = "pass" =>
       \A key \in DOMAIN finalData :
         key \in DOMAIN finalData' /\ finalData'[key] = finalData[key]]_vars

\* C4 as amended: the last profile that resolved to a boundary key holds it (a
\* later profile replaces the entry), and every profile that resolved to a key
\* is counted as a link, none as a duplicate.
C4_LastClaimWins ==
  LET handled == 1..k
      linked(key) == {i \in handled : Resolved(scraperFiles[i]) = key}
  IN Matching =>
       /\ \A key \in DOMAIN finalData :
            /\ linked(key) # {}
            /\ finalData[key] = Entry(scraperFiles[Max(linked(key))])
       /\ stats.linkedByCode + stats.linkedByName =
            Cardinality({i \in handled : Resolved(scraperFiles[i]) # Null})

C4_Witness ==
  /\ pc = "pass"
  /\ k = 2
  /\ Resolved(scraperFiles[1]) # Null
  /\ Resolved(scraperFiles[1]) = Resolved(scraperFiles[2])
  /\ scraperFiles[1].acaraId # scraperFiles[2].acaraId
  /\ finalData[Resolved(scraperFiles[2])] = Entry(scraperFiles[2])

\* C5: a profile whose code path and name path resolve to the same boundary is
\* linked to it and counted once, as a code link.
C5_AgreementIsCodeMatch ==
  [][(PassStep /\ BothAgree(scraperFiles[k + 1])) =>
       (linkedName' = CodeTarget(scraperFiles[k + 1]) /\ CountedByCode)]_vars

C5_Witness ==
  /\ pc = "pass"
  /\ k = 1
  /\ BothAgree(scraperFiles[1])
  /\ stats.linkedByCode = 1
  /\ stats.linkedByName = 0

\* C6: when a profile is counted as linked by code to a boundary, the registry
\* record of its ACARA id has, canonicalized, the code extracted from the
\* description blob of a boundary of that name.
C6_CodeMatchMeansEqualCodes ==
  [][(PassStep /\ stats'.linkedByCode = stats.linkedByCode + 1) =>
       LET content == scraperFiles[k + 1]
       IN /\ HasRegistry(content.acaraId)
          /\ \E i \in 1..Len(geoJson) :
               /\ geoJson[i].name = linkedName'
               /\ ExtractCode(geoJson[i].description) =
                    CanonicalStateCode(content.acaraId)]_vars

C6_Witness ==
  /\ pc = "pass"
  /\ k = 1
  /\ stats.linkedByCode = 1
  /\ HasRegistry(scraperFiles[1].acaraId)
  /\ CanonicalStateCode(scraperFiles[1].acaraId) = <<"5", "1", "7">>
  /\ \E i \in 1..Len(geoJson) :
       /\ geoJson[i].name = linkedName
       /\ MatchCentreCode(geoJson[i].description) = <<"0", "5", "1", "7">>

C8_ExactNameLinksThatBoundary ==
  [][(/\ PassStep
      /\ DistinctDisplayNames
      /\ ~HasRegistry(scraperFiles[k + 1].acaraId)
      /\ CandidateName(scraperFiles[k + 1]) \in BoundaryNames) =>
       (linkedName' = CandidateName(scraperFiles[k + 1]) /\ CountedByName)]_vars

\* C9 as claimed: a code that several boundaries carry is indexed to the first
\* of them in input order.
C9_FirstBoundaryKeepsCode ==
  Matching =>
    \A code \in DOMAIN codeToGeoName :
      /\ BoundariesWithCode(code) # {}
      /\ codeToGeoName[code] = geoJson[Min(BoundariesWithCode(code))].name

\* C9 as amended: the index holds every extracted code, each with the last
\* boundary in input order that carries it, and a profile whose registry code
\* is such a code is linked to that last boundary.
C9_LastBoundaryKeepsCode ==
  Matching =>
    /\ DOMAIN codeToGeoName =
         {ExtractCode(geoJson[i].description) : i \in 1..Len(geoJson)} \ {Null}
    /\ \A code \in DOMAIN codeToGeoName :
         codeToGeoName[code] = geoJson[Max(BoundariesWithCode(code))].name
    /\ \A i \in 1..k :
         LET content == scraperFiles[i]
         IN (/\ HasRegistry(content.acaraId)
             /\ BoundariesWithCode(CanonicalStateCode(content.acaraId)) # {}) =>
              Resolved(content) =
                geoJson[Max(BoundariesWithCode(
                  CanonicalStateCode(content.acaraId)))].name

C9_Witness ==
  /\ pc = "pass"
  /\ k = 1
  /\ Len(geoJson) = 2
  /\ geoJson[1].name # geoJson[2].name
  /\ ExtractCode(geoJson[1].description) = ExtractCode(geoJson[2].description)
  /\ HasRegistry(scraperFiles[1].acaraId)
  /\ CanonicalStateCode(scraperFiles[1].acaraId) = ExtractCode(geoJson[2].description)
  /\ linkedName = geoJson[2].name
  /\ finalData[geoJson[2].name] = Entry(scraperFiles[1])

\* ------------------------------------------- the run on names with qualifiers
\* Profiles whose schoolName carries text after a comma; no school database, so
\* every profile goes to the name strategy.
NameSuffixes ==
  {<<>>, <<",", " ", "Q", "L", "D">>, <<" ", ",", "x", ",", "y">>}
QualifiedFiles ==
  {[wellFormed |-> TRUE, acaraId |-> "47574", schoolName |-> base \o suffix] :
     base \in {NameASHS, NameAStateHighSchool}, suffix \in NameSuffixes}
  \cup {Malformed}

CommaInit ==
  /\ pc = "load"
  /\ schools = <<>>
  /\ geoJson \in SeqsUpTo(Features, MaxFeatures)
  /\ scraperFiles \in SeqsUpTo(QualifiedFiles, MaxFiles)
  /\ acaraToStateId = EmptyMap
  /\ codeToGeoName = EmptyMap
  /\ normGeoNameMap = EmptyMap
  /\ k = 0
  /\ linkedName = Null
  /\ nameTried = FALSE
  /\ finalData = EmptyMap
  /\ stats = NoStats
  /\ outputFile = NotWritten
  /\ exitCode = -1
  /\ NoChain
  /\ NoCodes
  /\ NoRegistryWork
  /\ NoBatch
  /\ NoStorage

CommaSpec == CommaInit /\ [][Next]_vars

\* ------------------------------------------- the property scraper's storage
\* Scraper processes, each started for one suburb, and the suburb files they
\* work on through SuburbStorage; a property is its listing_url and its suburb.
Procs == 1..MaxProcs
Suburbs == {"paddington", "new-farm"}
ListingUrls == {"/p/1", "/p/2"}
SoldProperty(url, suburb) == [listing_url |-> url, suburb |-> suburb]

\* What one page of results gives a scraper: one listing, or a listing that
\* the page shows twice.
Pages(suburb) ==
  {<<SoldProperty(u, suburb)>> : u \in ListingUrls}
    \cup {<<SoldProperty(u, suburb), SoldProperty(u, suburb)>> : u \in ListingUrls}

\* A file: missing, of length zero, holding the beginning of a JSON text, or
\* holding the JSON text of a list.
NoFile == [state |-> "missing", data |-> <<>>]
EmptyFile == [state |-> "empty", data |-> <<>>]
PartialFile == [state |-> "partial", data |-> <<>>]
JsonFile(data) == [state |-> "json", data |-> data]

\* A process as scrape_single_suburb starts it. (flock of a file is the
\* holder of LOCK_EX, 0 for none, and the set of holders of LOCK_SH.)
NewProc(suburb) ==
  [suburb |-> suburb, pc |-> "idle", calls |-> 0, call |-> "none",
   properties |-> <<>>, existing |-> <<>>, toWrite |-> <<>>,
   returned |-> <<>>, scraped |-> <<>>]

InitialDisks ==
  {[s \in Suburbs |->
      IF s \in have THEN JsonFile(<<SoldProperty("/p/1", s)>>) ELSE NoFile] :
     have \in SUBSET Suburbs}

StorageInit ==
  /\ RunIdle
  /\ NoChain
  /\ NoCodes
  /\ NoRegistryWork
  /\ NoBatch
  /\ disk \in InitialDisks
  /\ flock = [s \in Suburbs |-> [ex |-> 0, sh |-> {}]]
  /\ procs \in {[p \in Procs |-> NewProc(sub[p])] : sub \in [Procs -> Suburbs]}
  /\ combined = NotCombined

UrlsOf(props) == {props[i].listing_url : i \in 1..Len(props)}

\* [p.to_dict() for p in properties if p.listing_url not in existing_urls]
RECURSIVE NewProps(_, _)
NewProps(properties, existingUrls) ==
  IF properties = <<>> THEN <<>>
  ELSE IF Head(properties).listing_url \in existingUrls
       THEN NewProps(Tail(properties), existingUrls)
       ELSE <<Head(properties)>> \o NewProps(Tail(properties), existingUrls)

\* scrape_suburb has a page of results and calls storage.save with all it has
\* scraped.
CallSave(p) ==
  /\ procs[p].pc = "idle"
  /\ combined = NotCombined
  /\ procs[p].calls < MaxCalls
  /\ \E page \in Pages(procs[p].suburb) :
       procs' = [procs EXCEPT ![p] = [procs[p] EXCEPT !.pc = "open_w", !.call = "save",
                                                      !.calls = @ + 1,
                                                      !.scraped = @ \o page,
                                                      !.properties = procs[p].scraped \o page,
                                                      !.toWrite = procs[p].scraped \o page,
                                                      !.returned = <<>>]]
  /\ UNCHANGED <<disk, flock, combined>>
  /\ UNCHANGED <<runVars, nameVars, codeVars, registryVars, batchVars>>

\* scrape_suburb has a page of results and calls storage.append with the page.
CallAppend(p) ==
  /\ procs[p].pc = "idle"
  /\ combined = NotCombined
  /\ procs[p].calls < MaxCalls
  /\ \E page \in Pages(procs[p].suburb) :
       procs' = [procs EXCEPT ![p] = [procs[p] EXCEPT !.pc = "exists", !.call = "append",
                                                      !.calls = @ + 1,
                                                      !.scraped = @ \o page,
                                                      !.properties = page,
                                                      !.returned = <<>>]]
  /\ UNCHANGED <<disk, flock, combined>>
  /\ UNCHANGED <<runVars, nameVars, codeVars, registryVars, batchVars>>

\* load_existing: if not self.filename.exists(): return []; else open(..).
LoadExists(p) ==
  /\ procs[p].pc = "exists"
  /\ IF disk[procs[p].suburb].state = "missing"
     THEN procs' = [procs EXCEPT ![p] = [procs[p] EXCEPT !.pc = "filter", !.existing = <<>>]]
     ELSE procs' = [procs EXCEPT ![p] = [procs[p] EXCEPT !.pc = "flock_sh"]]
  /\ UNCHANGED <<disk, flock, combined>>
  /\ UNCHANGED <<runVars, nameVars, codeVars, registryVars, batchVars>>

\* load_existing: fcntl.flock(f.fileno(), fcntl.LOCK_SH) waits for the
\* exclusive lock to be free.
LockShared(p) ==
  /\ procs[p].pc = "flock_sh"
  /\ flock[procs[p].suburb].ex = 0
  /\ flock' = [flock EXCEPT ![procs[p].suburb].sh = @ \cup {p}]
  /\ procs' = [procs EXCEPT ![p] = [procs[p] EXCEPT !.pc = "json_load"]]
  /\ UNCHANGED <<disk, combined>>
  /\ UNCHANGED <<runVars, nameVars, codeVars, registryVars, batchVars>>

\* load_existing: return json.load(f), and the finally clause unlocks.
LoadReturns(p) ==
  /\ procs[p].pc = "json_load"
  /\ disk[procs[p].suburb].state = "json"
  /\ flock' = [flock EXCEPT ![procs[p].suburb].sh = @ \ {p}]
  /\ procs' = [procs EXCEPT ![p] = [procs[p] EXCEPT !.pc = "filter",
                                                    !.existing = disk[procs[p].suburb].data]]
  /\ UNCHANGED <<disk, combined>>
  /\ UNCHANGED <<runVars, nameVars, codeVars, registryVars, batchVars>>

\* load_existing: json.load(f) raises on a file that holds no JSON text; the
\* finally clause unlocks and the exception ends the scraper.
LoadRaises(p) ==
  /\ procs[p].pc = "json_load"
  /\ disk[procs[p].suburb].state # "json"
  /\ flock' = [flock EXCEPT ![procs[p].suburb].sh = @ \ {p}]
  /\ procs' = [procs EXCEPT ![p] = [procs[p] EXCEPT !.pc = "raised"]]
  /\ UNCHANGED <<disk, combined>>
  /\ UNCHANGED <<runVars, nameVars, codeVars, registryVars, batchVars>>

\* append: existing_urls, new_props, and return 0 when there is nothing new.
FilterNew(p) ==
  /\ procs[p].pc = "filter"
  /\ LET new == NewProps(procs[p].properties, UrlsOf(procs[p].existing))
     IN IF new = <<>>
        THEN procs' = [procs EXCEPT ![p] = [procs[p] EXCEPT !.pc = "idle", !.returned = <<0>>]]
        ELSE procs' = [procs EXCEPT ![p] = [procs[p] EXCEPT !.pc = "open_w",
                                                            !.toWrite = procs[p].existing \o new,
                                                            !.returned = <<Len(new)>>]]
  /\ UNCHANGED <<disk, flock, combined>>
  /\ UNCHANGED <<runVars, nameVars, codeVars, registryVars, batchVars>>

\* As OpenForWriting would be with one file for all suburbs.
OpenForWriting_SharedFile(p) ==
  /\ procs[p].pc = "open_w"
  /\ disk' = [disk EXCEPT !["paddington"] = EmptyFile]
  /\ procs' = [procs EXCEPT ![p] = [procs[p] EXCEPT !.pc = "flock_ex"]]
  /\ UNCHANGED <<flock, combined>>
  /\ UNCHANGED <<runVars, nameVars, codeVars, registryVars, batchVars>>

\* save, append: open(self.filename, "w") creates the file or cuts it to
\* length zero, before any lock is asked for.
OpenForWriting(p) ==
  /\ procs[p].pc = "open_w"
  /\ disk' = [disk EXCEPT ![procs[p].suburb] = EmptyFile]
  /\ procs' = [procs EXCEPT ![p] = [procs[p] EXCEPT !.pc = "flock_ex"]]
  /\ UNCHANGED <<flock, combined>>
  /\ UNCHANGED <<runVars, nameVars, codeVars, registryVars, batchVars>>

\* save, append: fcntl.flock(f.fileno(), fcntl.LOCK_EX) waits for every other
\* lock to be released.
LockExclusive(p) ==
  /\ procs[p].pc = "flock_ex"
  /\ flock[procs[p].suburb].ex = 0
  /\ flock[procs[p].suburb].sh \subseteq {p}
  /\ flock' = [flock EXCEPT ![procs[p].suburb].ex = p]
  /\ procs' = [procs EXCEPT ![p] = [procs[p] EXCEPT !.pc = "dump"]]
  /\ UNCHANGED <<disk, combined>>
  /\ UNCHANGED <<runVars, nameVars, codeVars, registryVars, batchVars>>

\* save, append: json.dump(.., f) writes into the buffer of f; the file gets
\* nothing yet, or the beginning of the text when the buffer has filled.
Dump(p) ==
  /\ procs[p].pc = "dump"
  /\ \/ UNCHANGED disk
     \/ disk' = [disk EXCEPT ![procs[p].suburb] = PartialFile]
  /\ procs' = [procs EXCEPT ![p] = [procs[p] EXCEPT !.pc = "unlock"]]
  /\ UNCHANGED <<flock, combined>>
  /\ UNCHANGED <<runVars, nameVars, codeVars, registryVars, batchVars>>

\* save, append: finally: fcntl.flock(f.fileno(), fcntl.LOCK_UN).
Unlock(p) ==
  /\ procs[p].pc = "unlock"
  /\ flock' = [flock EXCEPT ![procs[p].suburb].ex = 0]
  /\ procs' = [procs EXCEPT ![p] = [procs[p] EXCEPT !.pc = "close"]]
  /\ UNCHANGED <<disk, combined>>
  /\ UNCHANGED <<runVars, nameVars, codeVars, registryVars, batchVars>>

\* save, append: the with block closes f, which writes the buffer out from
\* offset 0. Over a text that another handle has written since the open, the
\* file ends as this text or as this text followed by the rest of the other.
CloseFile(p) ==
  /\ procs[p].pc = "close"
  /\ \/ disk' = [disk EXCEPT ![procs[p].suburb] = JsonFile(procs[p].toWrite)]
     \/ /\ disk[procs[p].suburb].state = "json"
        /\ disk' = [disk EXCEPT ![procs[p].suburb] = PartialFile]
  /\ procs' = [procs EXCEPT ![p] = [procs[p] EXCEPT !.pc = "idle"]]
  /\ UNCHANGED <<flock, combined>>
  /\ UNCHANGED <<runVars, nameVars, codeVars, registryVars, batchVars>>

\* combine_suburb_files on the files read in some order: the entries whose
\* listing_url was not seen before.
\* As Deduplicate would be without seen_urls.
Deduplicate_KeepAll(props, seenUrls) == props

RECURSIVE Deduplicate(_, _)
Deduplicate(props, seenUrls) ==
  IF props = <<>> THEN <<>>
  ELSE IF Head(props).listing_url \in seenUrls
       THEN Deduplicate(Tail(props), seenUrls)
       ELSE <<Head(props)>>
              \o Deduplicate(Tail(props), seenUrls \cup {Head(props).listing_url})

RECURSIVE ReadAll(_)
ReadAll(order) ==
  IF order = <<>> THEN <<>>
  ELSE disk[Head(order)].data \o ReadAll(Tail(order))

SuburbFiles == {s \in Suburbs : disk[s].state # "missing"}
GlobOrders ==
  {order \in SeqsUpTo(SuburbFiles, Cardinality(Suburbs)) :
     /\ Len(order) = Cardinality(SuburbFiles)
     /\ \A s \in SuburbFiles : \E i \in 1..Len(order) : order[i] = s}

Finished(p) ==
  procs[p].pc = "raised" \/ (procs[p].pc = "idle" /\ procs[p].calls >= 1)

\* run_scraper.py --combine, started when every scraper has ended.
Combine ==
  /\ combined = NotCombined
  /\ \A p \in Procs : Finished(p)
  /\ \A s \in SuburbFiles : disk[s].state = "json"
  /\ \E order \in GlobOrders :
       LET all == Deduplicate(ReadAll(order), {})
       IN combined' = [state |-> "json", data |-> all, count |-> Len(all)]
  /\ UNCHANGED <<disk, flock, procs>>
  /\ UNCHANGED <<runVars, nameVars, codeVars, registryVars, batchVars>>

\* combine_suburb_files raises at a suburb file that holds no JSON text.
CombineRaises ==
  /\ combined = NotCombined
  /\ \A p \in Procs : Finished(p)
  /\ \E s \in SuburbFiles : disk[s].state # "json"
  /\ combined' = [state |-> "raised", data |-> <<>>, count |-> 0]
  /\ UNCHANGED <<disk, flock, procs>>
  /\ UNCHANGED <<runVars, nameVars, codeVars, registryVars, batchVars>>

StorageNext ==
  \/ \E p \in Procs : CallSave(p)
  \/ \E p \in Procs : CallAppend(p)
  \/ \E p \in Procs : LoadExists(p)
  \/ \E p \in Procs : LockShared(p)
  \/ \E p \in Procs : LoadReturns(p)
  \/ \E p \in Procs : LoadRaises(p)
  \/ \E p \in Procs : FilterNew(p)
  \/ \E p \in Procs : OpenForWriting(p)
  \/ \E p \in Procs : LockExclusive(p)
  \/ \E p \in Procs : Dump(p)
  \/ \E p \in Procs : Unlock(p)
  \/ \E p \in Procs : CloseFile(p)
  \/ Combine
  \/ CombineRaises

StorageSpec == StorageInit /\ [][StorageNext]_vars

\* ------------------------------------------------- the school scraper's batch
\* run() with --batch: the schools of SCHOOLS_FILE in order, scrapeSchool for
\* each, up to MAX_RETRIES times. outputDir maps the name of a file of
\* OUTPUT_DIR (without .json) to what it holds.
MAX_RETRIES == 3
AcaraIds == {"40000", "47574"}
ErrorShot(id) == IF id = "40000" THEN "error_40000" ELSE "error_47574"
\* catch: page.screenshot({ path: error_<acaraId>.png }).catch(() => { }): the
\* picture of the page is written, or it is not.
AfterScreenshot(dir, id, shown) == {dir, MapSet(dir, ErrorShot(id), shown)}

EarlierOutputs ==
  {[id \in have |-> <<"earlier run">>] : have \in SUBSET AcaraIds}

BatchInit ==
  /\ RunIdle
  /\ NoChain
  /\ NoCodes
  /\ NoRegistryWork
  /\ NoStorage
  /\ batchPc = "for"
  /\ batchSchools \in SeqsUpTo(AcaraIds, MaxBatch)
  /\ schoolIndex = 0
  /\ attempts = 0
  /\ success = FALSE
  /\ skipped = FALSE
  /\ failedSchools = <<>>
  /\ outputDir \in EarlierOutputs

acaraId == batchSchools[schoolIndex + 1]

\* for (let i = 0; i < schools.length; i++): success, skipped, attempts reset.
NextSchool ==
  /\ batchPc = "for"
  /\ schoolIndex < Len(batchSchools)
  /\ success' = FALSE
  /\ skipped' = FALSE
  /\ attempts' = 0
  /\ batchPc' = "while"
  /\ UNCHANGED <<batchSchools, schoolIndex, failedSchools, outputDir>>
  /\ UNCHANGED <<runVars, nameVars, codeVars, registryVars, storageVars>>

\* while (!success && attempts < MAX_RETRIES) { attempts++; .. scrapeSchool
Attempt ==
  /\ batchPc = "while"
  /\ ~success
  /\ attempts < MAX_RETRIES
  /\ attempts' = attempts + 1
  /\ batchPc' = "scrape"
  /\ UNCHANGED <<batchSchools, schoolIndex, success, skipped, failedSchools, outputDir>>
  /\ UNCHANGED <<runVars, nameVars, codeVars, registryVars, storageVars>>

\* scrapeSchool: if (fs.existsSync(outputPath)) return success, skipped.
AlreadyScraped ==
  /\ batchPc = "scrape"
  /\ acaraId \in DOMAIN outputDir
  /\ success' = TRUE
  /\ skipped' = TRUE
  /\ batchPc' = "while"
  /\ UNCHANGED <<batchSchools, schoolIndex, attempts, failedSchools, outputDir>>
  /\ UNCHANGED <<runVars, nameVars, codeVars, registryVars, storageVars>>

\* As ExtractProfile would be when the file were written as soon as the
\* profile is there.
ExtractProfile_WritesAtOnce ==
  /\ batchPc = "scrape"
  /\ acaraId \notin DOMAIN outputDir
  /\ outputDir' = MapSet(outputDir, acaraId, <<"this run">>)
  /\ batchPc' = "naplan"
  /\ UNCHANGED <<batchSchools, schoolIndex, attempts, success, skipped, failedSchools>>
  /\ UNCHANGED <<runVars, nameVars, codeVars, registryVars, storageVars>>

\* scrapeSchool: the profile page is reached and validated, profileData read.
ExtractProfile ==
  /\ batchPc = "scrape"
  /\ acaraId \notin DOMAIN outputDir
  /\ batchPc' = "naplan"
  /\ UNCHANGED <<batchSchools, schoolIndex, attempts, success, skipped, failedSchools, outputDir>>
  /\ UNCHANGED <<runVars, nameVars, codeVars, registryVars, storageVars>>

\* scrapeSchool: navigation or validation of the profile page throws; catch
\* returns failure.
ProfileFails ==
  /\ batchPc = "scrape"
  /\ acaraId \notin DOMAIN outputDir
  /\ outputDir' \in AfterScreenshot(outputDir, acaraId, <<"profile page">>)
  /\ success' = FALSE
  /\ skipped' = FALSE
  /\ batchPc' = "while"
  /\ UNCHANGED <<batchSchools, schoolIndex, attempts, failedSchools>>
  /\ UNCHANGED <<runVars, nameVars, codeVars, registryVars, storageVars>>

\* scrapeSchool: the NAPLAN page is reached and results read.
ExtractNaplan ==
  /\ batchPc = "naplan"
  /\ batchPc' = "write"
  /\ UNCHANGED <<batchSchools, schoolIndex, attempts, success, skipped, failedSchools, outputDir>>
  /\ UNCHANGED <<runVars, nameVars, codeVars, registryVars, storageVars>>

\* scrapeSchool: navigation to the NAPLAN page or the evaluation throws.
NaplanFails ==
  /\ batchPc = "naplan"
  /\ outputDir' \in AfterScreenshot(outputDir, acaraId, <<"naplan page">>)
  /\ success' = FALSE
  /\ skipped' = FALSE
  /\ batchPc' = "while"
  /\ UNCHANGED <<batchSchools, schoolIndex, attempts, failedSchools>>
  /\ UNCHANGED <<runVars, nameVars, codeVars, registryVars, storageVars>>

\* scrapeSchool: fs.writeFileSync(outputPath, ..); return success.
WriteSchoolFile ==
  /\ batchPc = "write"
  /\ outputDir' = MapSet(outputDir, acaraId, <<"this run">>)
  /\ success' = TRUE
  /\ skipped' = FALSE
  /\ batchPc' = "while"
  /\ UNCHANGED <<batchSchools, schoolIndex, attempts, failedSchools>>
  /\ UNCHANGED <<runVars, nameVars, codeVars, registryVars, storageVars>>

\* As EndWhile would be when every school were recorded as failed.
EndWhile_RecordsAll ==
  /\ batchPc = "while"
  /\ success \/ attempts >= MAX_RETRIES
  /\ failedSchools' = Append(failedSchools, acaraId)
  /\ schoolIndex' = schoolIndex + 1
  /\ batchPc' = "for"
  /\ UNCHANGED <<batchSchools, attempts, success, skipped, outputDir>>
  /\ UNCHANGED <<runVars, nameVars, codeVars, registryVars, storageVars>>

\* The while loop ends; if (!success) failedSchools.push(acaraId); i++.
EndWhile ==
  /\ batchPc = "while"
  /\ success \/ attempts >= MAX_RETRIES
  /\ failedSchools' = IF ~success THEN Append(failedSchools, acaraId)
                      ELSE failedSchools
  /\ schoolIndex' = schoolIndex + 1
  /\ batchPc' = "for"
  /\ UNCHANGED <<batchSchools, attempts, success, skipped, outputDir>>
  /\ UNCHANGED <<runVars, nameVars, codeVars, registryVars, storageVars>>

\* After the for loop: failed_schools.json is written when a school failed.
EndBatch ==
  /\ batchPc = "for"
  /\ schoolIndex = Len(batchSchools)
  /\ outputDir' = IF Len(failedSchools) > 0
                  THEN MapSet(outputDir, "failed_schools", failedSchools)
                  ELSE outputDir
  /\ batchPc' = "done"
  /\ UNCHANGED <<batchSchools, schoolIndex, attempts, success, skipped, failedSchools>>
  /\ UNCHANGED <<runVars, nameVars, codeVars, registryVars, storageVars>>

BatchNext ==
  \/ NextSchool
  \/ Attempt
  \/ AlreadyScraped
  \/ ExtractProfile
  \/ ProfileFails
  \/ ExtractNaplan
  \/ NaplanFails
  \/ WriteSchoolFile
  \/ EndWhile
  \/ EndBatch

\* Every await of the loop resolves or times out, so the step that is due is
\* taken.
BatchSpec == BatchInit /\ [][BatchNext]_vars /\ WF_vars(BatchNext)

\* --------------------------------------------- the registry-maintenance scripts
\* The scripts that bring missing schools into schools.json, run one after the
\* other before the processing script: the search for catchments without data
\* (missing_schools.json), find_acara_ids.js (schools_to_add.json),
\* add_schools_to_database.js and update_schools_json.js. Registry records
\* carry SchoolName here.
RegistryRecords ==
  { [ACARAId |-> "47574", StateProvinceId |-> Code2324Padded,
     SchoolName |-> NameASHS],
    [ACARAId |-> "99999", StateProvinceId |-> Code517Padded,
     SchoolName |-> NameAStateHighSchool],
    [ACARAId |-> "47574", StateProvinceId |-> Code517Padded,
     SchoolName |-> NameBss] }

UniqueAcaraIds(ss) ==
  \A i, j \in 1..Len(ss) : ss[i].ACARAId = ss[j].ACARAId => i = j

\* const foundIds = { name: ACARA id, .. }
FoundIdsLists ==
  { MapSet(MapSet(EmptyMap, NameASHS, "47574"), NameAStateHighSchool, "99999"),
    MapSet(EmptyMap, NameAStateHighSchool, "47574") }

\* const updates = [ { name, acaraId, stateId }, .. ]
UpdatesLists ==
  { <<>>,
    <<[name |-> NameASHS, acaraId |-> "47574", stateId |-> Code2324Padded]>>,
    <<[name |-> NameBss, acaraId |-> "99999", stateId |-> Code517Padded]>> }

\* naplan_data.json as an earlier run of the processing script has left it.
EarlierNaplanData ==
  { EmptyMap,
    MapSet(EmptyMap, NameASHS, [acaraId |-> "47574", schoolName |-> NameASHS]) }

RegistryInit ==
  /\ pc = "find_missing"
  /\ schools \in {ss \in SeqsUpTo(RegistryRecords, MaxSchools) : UniqueAcaraIds(ss)}
  /\ geoJson \in SeqsUpTo(Features, MaxFeatures)
  /\ scraperFiles \in SeqsUpTo(ScrapedFiles, MaxFiles)
  /\ acaraToStateId = EmptyMap
  /\ codeToGeoName = EmptyMap
  /\ normGeoNameMap = EmptyMap
  /\ k = 0
  /\ linkedName = Null
  /\ nameTried = FALSE
  /\ finalData = EmptyMap
  /\ stats = NoStats
  /\ outputFile \in {[written |-> TRUE, data |-> d] : d \in EarlierNaplanData}
  /\ exitCode = -1
  /\ missingSchools = <<>>
  /\ foundIds \in FoundIdsLists
  /\ schoolsToAdd = <<>>
  /\ updates \in UpdatesLists
  /\ NoChain
  /\ NoCodes
  /\ NoBatch
  /\ NoStorage

\* stateIdToSchool keys: parseInt(s.StateProvinceId, 10).toString()
SimpleIds(ss) == {ParseIntToString(ss[i].StateProvinceId) : i \in 1..Len(ss)}

\* geoJson.features.forEach: the catchments with a centre code, without data
\* under their name and without a school of that code in the database.
RECURSIVE MissingCodes(_, _, _)
MissingCodes(features, ss, hasData) ==
  IF features = <<>> THEN <<>>
  ELSE LET f == Head(features)
           match == MatchCentreCode(f.description)
           rest == MissingCodes(Tail(features), ss, hasData)
       IN IF match = Null THEN rest
          ELSE LET code == ParseIntToString(match)
               IN IF f.name \notin hasData /\ code \notin SimpleIds(ss)
                  THEN <<[name |-> f.name, centreCode |-> code]>> \o rest
                  ELSE rest

\* As PadStart would be with the zeros put after the digits.
RECURSIVE PadStart_AtEnd(_, _, _)
PadStart_AtEnd(s, n, c) ==
  IF Len(s) >= n THEN s ELSE PadStart_AtEnd(s \o <<c>>, n, c)

\* String.prototype.padStart(n, c) for a one-character c.
RECURSIVE PadStart(_, _, _)
PadStart(s, n, c) == IF Len(s) >= n THEN s ELSE PadStart(<<c>> \o s, n, c)

\* missingSchools.forEach: a record for every name that foundIds has.
RECURSIVE NewRecords(_, _)
NewRecords(missing, found) ==
  IF missing = <<>> THEN <<>>
  ELSE LET m == Head(missing)
           rest == NewRecords(Tail(missing), found)
       IN IF m.name \in DOMAIN found
          THEN <<[ACARAId |-> found[m.name],
                  StateProvinceId |-> PadStart(m.centreCode, 9, "0"),
                  SchoolName |-> m.name]>> \o rest
          ELSE rest

\* schoolsToAdd.filter(s => !existingAcaraIds.has(s.ACARAId))
RECURSIVE NewSchools(_, _)
NewSchools(toAdd, existingAcaraIds) ==
  IF toAdd = <<>> THEN <<>>
  ELSE IF Head(toAdd).ACARAId \in existingAcaraIds
       THEN NewSchools(Tail(toAdd), existingAcaraIds)
       ELSE <<Head(toAdd)>> \o NewSchools(Tail(toAdd), existingAcaraIds)

\* updates.forEach body: the first record of that SchoolName gets the ids, or
\* a new record is pushed.
ApplyUpdate(ss, update) ==
  LET found == {i \in 1..Len(ss) : ss[i].SchoolName = update.name}
  IN IF found # {}
     THEN LET existingIndex == CHOOSE i \in found : \A j \in found : i <= j
          IN [ss EXCEPT ![existingIndex].ACARAId = update.acaraId,
                        ![existingIndex].StateProvinceId = update.stateId]
     ELSE Append(ss, [ACARAId |-> update.acaraId,
                      StateProvinceId |-> update.stateId,
                      SchoolName |-> update.name])

RECURSIVE ApplyUpdates(_, _)
ApplyUpdates(ss, us) ==
  IF us = <<>> THEN ss ELSE ApplyUpdates(ApplyUpdate(ss, Head(us)), Tail(us))

\* The search for missing schools writes scripts/missing_schools.json.
FindMissingSchools ==
  /\ pc = "find_missing"
  /\ missingSchools' = MissingCodes(geoJson, schools, DOMAIN outputFile.data)
  /\ pc' = "find_ids"
  /\ UNCHANGED <<schools, schoolsToAdd>>
  /\ UNCHANGED <<geoJson, scraperFiles, acaraToStateId, codeToGeoName,
                 normGeoNameMap, k, linkedName, nameTried, finalData, stats,
                 outputFile, exitCode, foundIds, updates, nameVars, codeVars,
                 batchVars, storageVars>>

\* find_acara_ids.js writes scripts/schools_to_add.json.
FindAcaraIds ==
  /\ pc = "find_ids"
  /\ schoolsToAdd' = NewRecords(missingSchools, foundIds)
  /\ pc' = "add"
  /\ UNCHANGED <<schools, missingSchools>>
  /\ UNCHANGED <<geoJson, scraperFiles, acaraToStateId, codeToGeoName,
                 normGeoNameMap, k, linkedName, nameTried, finalData, stats,
                 outputFile, exitCode, foundIds, updates, nameVars, codeVars,
                 batchVars, storageVars>>

\* add_schools_to_database.js writes schools.json.
AddSchoolsToDatabase ==
  /\ pc = "add"
  /\ schools' = schools \o NewSchools(schoolsToAdd,
                                      {schools[i].ACARAId : i \in 1..Len(schools)})
  /\ pc' = "update"
  /\ UNCHANGED <<missingSchools, schoolsToAdd>>
  /\ UNCHANGED <<geoJson, scraperFiles, acaraToStateId, codeToGeoName,
                 normGeoNameMap, k, linkedName, nameTried, finalData, stats,
                 outputFile, exitCode, foundIds, updates, nameVars, codeVars,
                 batchVars, storageVars>>

\* update_schools_json.js writes schools.json.
UpdateSchoolsJson ==
  /\ pc = "update"
  /\ schools' = ApplyUpdates(schools, updates)
  /\ pc' = "load"
  /\ UNCHANGED <<missingSchools, schoolsToAdd>>
  /\ UNCHANGED <<geoJson, scraperFiles, acaraToStateId, codeToGeoName,
                 normGeoNameMap, k, linkedName, nameTried, finalData, stats,
                 outputFile, exitCode, foundIds, updates, nameVars, codeVars,
                 batchVars, storageVars>>

RegistryNext ==
  \/ FindMissingSchools
  \/ FindAcaraIds
  \/ AddSchoolsToDatabase
  \/ UpdateSchoolsJson
  \/ Next

RegistrySpec == RegistryInit /\ [][RegistryNext]_vars

\* --------------------------------------------------------- the two code keys
\* The digit strings the two sources carry: a StateProvinceId of schools.json
\* and the digits of a Centre_code cell.
CodeDigits == {"0", "1", "5"}
DigitStrings == SeqsUpTo(CodeDigits, MaxCodeDigits) \ {<<>>}

CodeInit ==
  /\ RunIdle
  /\ NoChain
  /\ NoRegistryWork
  /\ NoBatch
  /\ NoStorage
  /\ registryCode \in DigitStrings
  /\ blobCode \in DigitStrings
  /\ registryKey = Null
  /\ blobKey = Null

\* schools.forEach on a record with this StateProvinceId: the value stored in
\* acaraToStateId.
ParseRegistryCode ==
  /\ registryCode # <<>>
  /\ registryKey = Null
  /\ registryKey' =
       BuildAcaraToStateId(
         <<[ACARAId |-> "47574", StateProvinceId |-> registryCode]>>)["47574"]
  /\ UNCHANGED <<registryCode, blobCode, blobKey>>
  /\ UNCHANGED <<runVars, nameVars, registryVars, batchVars, storageVars>>

\* geoJson.features.forEach on a feature with this Centre_code: the key stored
\* in codeToGeoName.
ParseBlobCode ==
  /\ blobCode # <<>>
  /\ blobKey = Null
  /\ blobKey' =
       ExtractCode(<<NameRow, [label |-> CentreCodeLabel, value |-> blobCode]>>)
  /\ UNCHANGED <<registryCode, blobCode, registryKey>>
  /\ UNCHANGED <<runVars, nameVars, registryVars, batchVars, storageVars>>

CodeNext ==
  \/ ParseRegistryCode
  \/ ParseBlobCode

CodeSpec == CodeInit /\ [][CodeNext]_vars

\* --------------------------------------------------- claims on name chains
NormalizingChains == {"naplan", "overlap", "sites"}
RanTwice == applications >= 2 /\ op = 0

\* C11: a normalization chain run on its own result returns that result
\* unchanged, for every name and each of the chains used for matching.
C11_NormalizationIdempotent ==
  (chain \in NormalizingChains /\ RanTwice) => text = firstResult

\* --------------------------------------------------- claims on the code keys
RECURSIVE WithoutLeadingZeros(_)
WithoutLeadingZeros(s) ==
  IF Len(s) > 1 /\ Head(s) = "0" THEN WithoutLeadingZeros(Tail(s)) ELSE s
IsCanonicalCode(s) == WithoutLeadingZeros(s) = s
BothParsed == registryKey # Null /\ blobKey # Null

\* C12: a state code of the registry and a centre code of a description blob
\* that differ only in leading zeros get the same key (and only then), each key
\* is canonical, and a code that is already canonical is its own key.
C12_LeadingZerosIgnored ==
  /\ BothParsed =>
       (registryKey = blobKey <=>
          WithoutLeadingZeros(registryCode) = WithoutLeadingZeros(blobCode))
  /\ registryKey # Null =>
       /\ IsCanonicalCode(registryKey)
       /\ IsCanonicalCode(registryCode) => registryKey = registryCode
  /\ blobKey # Null =>
       /\ IsCanonicalCode(blobKey)
       /\ IsCanonicalCode(blobCode) => blobKey = blobCode

C12_Witness ==
  /\ BothParsed
  /\ registryCode # blobCode
  /\ Len(registryCode) # Len(blobCode)
  /\ registryKey = blobKey
  /\ registryKey # registryCode

\* ------------------------------------------------ further claims on the run
AllWellFormed(n) == \A i \in 1..n : scraperFiles[i].wellFormed
Links == stats.linkedByCode + stats.linkedByName

\* C13 as claimed: a run that ends in the fatal error has processed no profile.
C13_FatalOnlyBeforeFirstProfile == pc = "failed" => k = 0

\* C13 as amended: the run ends in the fatal error (exit 1, nothing written) either while
\* loading, or in the pass at the first profile file that does not parse, after
\* the profiles before it were processed; a run that writes its output has
\* processed every profile.
C13_FatalAtFirstUnreadableProfile ==
  /\ pc = "failed" =>
       /\ exitCode = 1
       /\ ~outputFile.written
       /\ \/ k = 0 /\ stats = NoStats /\ finalData = EmptyMap
          \/ /\ k < Len(scraperFiles)
             /\ ~scraperFiles[k + 1].wellFormed
             /\ AllWellFormed(k)
             /\ stats.total = Len(scraperFiles)
  /\ pc = "done" => k = Len(scraperFiles) /\ AllWellFormed(k)

C13_Witness == pc = "failed" /\ k >= 1 /\ Links >= 1

\* The boundaries whose description blob carries no code pattern, and the rest.
BoundariesWithoutCode ==
  {i \in 1..Len(geoJson) : MatchCentreCode(geoJson[i].description) = Null}
CodedBoundaries == (1..Len(geoJson)) \ BoundariesWithoutCode

\* The candidate name of a profile reaches the boundary name through one of the
\* keys the name index has for it.
NameReaches(content, name) ==
  \/ NormScraped(content.schoolName) \in {ToLowerCase(name), NormGeoName(name)}
  \/ Variant(NormScraped(content.schoolName)) \in
       {ToLowerCase(name), NormGeoName(name)}

\* C14: a boundary without a code pattern does not stop the build; the code
\* index has exactly the codes of the other boundaries, each leading to a
\* boundary that carries it; the boundary without a code has its name keys, and
\* a profile that the code path does not resolve and whose name reaches such a
\* boundary is linked by name.
C14_NoCodeBoundaryStillNamed ==
  /\ [][pc = "build" => pc' = "pass"]_vars
  /\ [](Matching =>
          /\ DOMAIN codeToGeoName =
               {ExtractCode(geoJson[i].description) : i \in CodedBoundaries}
          /\ \A c \in DOMAIN codeToGeoName :
               \E i \in CodedBoundaries :
                 /\ ExtractCode(geoJson[i].description) = c
                 /\ geoJson[i].name = codeToGeoName[c]
          /\ \A i \in BoundariesWithoutCode :
               {ToLowerCase(geoJson[i].name), NormGeoName(geoJson[i].name)}
                 \subseteq DOMAIN normGeoNameMap)
  /\ [][(/\ PassStep
         /\ CodeTarget(scraperFiles[k + 1]) = Null
         /\ \E i \in BoundariesWithoutCode :
              NameReaches(scraperFiles[k + 1], geoJson[i].name))
        => (linkedName' # Null /\ CountedByName)]_vars

\* A boundary without a code sits next to one with a code, and a profile has
\* been linked to it by name.
C14_Witness ==
  /\ Matching
  /\ BoundariesWithoutCode # {}
  /\ CodedBoundaries # {}
  /\ DOMAIN codeToGeoName # {}
  /\ k >= 1
  /\ stats.linkedByName >= 1
  /\ \E i \in BoundariesWithoutCode : linkedName = geoJson[i].name

\* File k + 1 is a profile that holds, in finalData, the boundary it resolves to.
HoldsItsBoundary(content) ==
  /\ Resolved(content) # Null
  /\ Resolved(content) \in DOMAIN finalData
  /\ finalData[Resolved(content)] = Entry(content)

\* C15 as claimed: handling a profile again against the boundary it holds
\* changes neither the output mapping nor the counts.
C15_RepeatChangesNothing ==
  [][(PassStep /\ HoldsItsBoundary(scraperFiles[k + 1]))
     => (finalData' = finalData /\ stats' = stats)]_vars

\* C15 as amended: handling a profile again against the boundary it holds leaves the
\* output mapping as it was and counts the profile once more, as a code link
\* or as a name link.
C15_RepeatKeepsOutputCountsAgain ==
  [][(PassStep /\ HoldsItsBoundary(scraperFiles[k + 1]))
     => (finalData' = finalData /\ (CountedByCode \/ CountedByName))]_vars

\* The same profile was handled twice and counted twice for one output entry.
C15_Witness ==
  /\ Matching
  /\ k = 2
  /\ scraperFiles[1] = scraperFiles[2]
  /\ Links = 2
  /\ Cardinality(DOMAIN finalData) = 1

\* C16 as claimed: the name path is run for a profile whose code path succeeded.
C16_NamePathAlwaysRun ==
  [][(PassStep /\ CodeTarget(scraperFiles[k + 1]) # Null) => nameTried']_vars

\* C16 as amended: the name path is run for a profile exactly when its code path found no
\* boundary; after a code link it is skipped, and the profile is linked to the
\* code path's boundary and counted as a code link whatever its name would match.
C16_NamePathIsFallback ==
  [][PassStep =>
       /\ nameTried' <=> CodeTarget(scraperFiles[k + 1]) = Null
       /\ CodeTarget(scraperFiles[k + 1]) # Null =>
            /\ linkedName' = CodeTarget(scraperFiles[k + 1])
            /\ CountedByCode]_vars

\* The last profile was linked by code without its name being looked up,
\* though its name matches a boundary.
C16_Witness ==
  /\ Matching
  /\ k >= 1
  /\ ~nameTried
  /\ scraperFiles[k].wellFormed
  /\ CodeTarget(scraperFiles[k]) # Null
  /\ NameTarget(scraperFiles[k]) # Null

\* ------------------------------------------- further claims on name chains
Occurrences(s, pat) ==
  {i \in 1..Len(s) : i + Len(pat) - 1 <= Len(s) /\ SubSeq(s, i, i + Len(pat) - 1) = pat}
Contains(s, pat) == Occurrences(s, pat) # {}

\* The replacements the chain still has to make after the next call.
LaterReplaces ==
  {j \in (op + 2)..Len(ChainOps(chain)) : ChainOps(chain)[j].kind = "replace"}
LaterPattern(j) == ChainOps(chain)[j].pat

\* C17: no replacement is made before a longer replacement whose pattern
\* contains its pattern, so no occurrence it rewrites lies inside an occurrence
\* of the pattern of a longer replacement still to come.
C17_NoContainedPatternFirst ==
  Calls("replace") =>
    \A j \in LaterReplaces :
      Len(LaterPattern(j)) > Len(NextOp.pat) =>
        /\ ~Contains(LaterPattern(j), NextOp.pat)
        /\ \A p \in Occurrences(text, NextOp.pat) :
             \A q \in Occurrences(text, LaterPattern(j)) :
               ~(q <= p /\ p + Len(NextOp.pat) <= q + Len(LaterPattern(j)))

\* findCatchmentByName is about to replace 'high school' in a name that had
\* 'state high school' in it, which the earlier, longer rule has rewritten.
C17_Witness ==
  /\ chain = "sites"
  /\ Calls("replace")
  /\ NextOp.pat = LowerHighSchool
  /\ Contains(ToLowerCase(original), LowerStateHighSchool)
  /\ Contains(text, LowerShs)
  /\ ~Contains(text, LowerHighSchool)

\* ---------------------------------------------- claims on the name path
\* The abbreviation mapping: a name with its long forms written short.
Abbreviate(name) ==
  ReplaceAll(ReplaceAll(name, StateHighSchool, SHS), StateSchool, SS)
SameUpToAbbreviation(a, b) == Abbreviate(a) = Abbreviate(b)
SameUpToAbbreviationAndCase(a, b) ==
  ToLowerCase(Abbreviate(a)) = ToLowerCase(Abbreviate(b))

\* The candidate is in long form and boundary i is named by its short form.
LongCandidateShortBoundary(content, i) ==
  /\ CandidateName(content) # Abbreviate(CandidateName(content))
  /\ geoJson[i].name = Abbreviate(CandidateName(content))

\* The candidate is in short form and boundary i is named by a long form of it.
ShortCandidateLongBoundary(content, i) ==
  /\ geoJson[i].name # CandidateName(content)
  /\ Abbreviate(geoJson[i].name) = CandidateName(content)

\* C18 as claimed: a profile that the code path does not resolve is linked by
\* name when a boundary's name differs from its candidate name only by the
\* abbreviation mapping, whichever of the two is the long form.
C18_AbbreviationEitherDirection ==
  [][(/\ PassStep
      /\ CodeTarget(scraperFiles[k + 1]) = Null
      /\ \E i \in 1..Len(geoJson) :
           SameUpToAbbreviation(CandidateName(scraperFiles[k + 1]),
                                geoJson[i].name))
     => linkedName' # Null]_vars

\* C18 as amended: a profile that the code path does not resolve is linked by name, to a
\* boundary named like its candidate up to abbreviation and letter case, when
\* the candidate is in long form and a boundary is named by its short form; it
\* is left unlinked when the candidate is in short form and every boundary is
\* named by a long form of it.
C18_LongCandidateShortBoundaryOnly ==
  [][(PassStep /\ CodeTarget(scraperFiles[k + 1]) = Null) =>
       /\ (\E i \in 1..Len(geoJson) :
             LongCandidateShortBoundary(scraperFiles[k + 1], i))
          => /\ linkedName' \in BoundaryNames
             /\ SameUpToAbbreviationAndCase(linkedName',
                                            CandidateName(scraperFiles[k + 1]))
             /\ CountedByName
       /\ (/\ geoJson # <<>>
           /\ \A i \in 1..Len(geoJson) :
                ShortCandidateLongBoundary(scraperFiles[k + 1], i))
          => (linkedName' = Null /\ CountedUnlinked)]_vars

\* The last profile, in long form, was linked by name to the boundary named by
\* its short form.
C18_Witness ==
  /\ Matching
  /\ k >= 1
  /\ scraperFiles[k].wellFormed
  /\ CodeTarget(scraperFiles[k]) = Null
  /\ CandidateName(scraperFiles[k]) # Abbreviate(CandidateName(scraperFiles[k]))
  /\ linkedName = Abbreviate(CandidateName(scraperFiles[k]))
  /\ linkedName \in BoundaryNames
  /\ stats.linkedByName >= 1

\* C19: two profiles handled one after the other whose names agree up to the
\* first comma get the same result from the name path, whatever follows the
\* comma.
C19_OnlyBeforeFirstComma ==
  [][(/\ PassStep
      /\ k >= 1
      /\ nameTried
      /\ CodeTarget(scraperFiles[k + 1]) = Null
      /\ BeforeComma(scraperFiles[k].schoolName) =
           BeforeComma(scraperFiles[k + 1].schoolName))
     => (nameTried' /\ linkedName' = linkedName)]_vars

\* Two profiles with the same name before the comma and different text after
\* it were linked by name to the same boundary.
C19_Witness ==
  /\ Matching
  /\ k = 2
  /\ scraperFiles[1].wellFormed
  /\ scraperFiles[2].wellFormed
  /\ scraperFiles[1].schoolName # scraperFiles[2].schoolName
  /\ BeforeComma(scraperFiles[1].schoolName) = BeforeComma(scraperFiles[2].schoolName)
  /\ stats.linkedByName = 2
  /\ linkedName \in BoundaryNames

\* ------------------------------------------------- claims on the statistics
Handled == 1..k
UnmatchedProfiles == {i \in Handled : Resolved(scraperFiles[i]) = Null}
CodeLinkedProfiles == {i \in Handled : CodeTarget(scraperFiles[i]) # Null}
NameLinkedProfiles ==
  {i \in Handled : /\ CodeTarget(scraperFiles[i]) = Null
                   /\ NameTarget(scraperFiles[i]) # Null}

\* C20 as claimed: what the finished run reports has a list of the unmatched
\* profiles, as long as the unmatched count, a list of the conflicting matches
\* and a list of the duplicate-code boundaries.
C20_ReportHasLists ==
  pc = "done" =>
    /\ {"unmatched", "conflicts", "duplicateCodes"} \subseteq DOMAIN stats
    /\ Len(stats.unmatched) = stats.unlinked

\* C20 as amended: what the run reports is four counts and nothing else: the number of
\* profile files, and of the profiles handled so far the number linked by code,
\* the number linked by name and the number left unlinked.
C20_ReportIsFourCounts ==
  Matching =>
    /\ DOMAIN stats = {"total", "linkedByCode", "linkedByName", "unlinked"}
    /\ stats.total = Len(scraperFiles)
    /\ stats.linkedByCode = Cardinality(CodeLinkedProfiles)
    /\ stats.linkedByName = Cardinality(NameLinkedProfiles)
    /\ stats.unlinked = Cardinality(UnmatchedProfiles)

\* A finished run with an unmatched profile and a linked one.
C20_Witness ==
  /\ pc = "done"
  /\ stats.unlinked >= 1
  /\ UnmatchedProfiles # {}
  /\ Links >= 1

\* ------------------------------------------------- claims on the output
\* C28: during and after the profile pass every key of the output mapping is
\* the name of a boundary feature, and the entry under it is that of a handled
\* profile that resolves to this boundary, by code or else by name.
C28_KeysAreLinkedBoundaries ==
  Matching =>
    \A key \in DOMAIN finalData :
      /\ key \in BoundaryNames
      /\ \E i \in Handled :
           /\ finalData[key] = Entry(scraperFiles[i])
           /\ Resolved(scraperFiles[i]) = key
           /\ \/ CodeTarget(scraperFiles[i]) = key
              \/ /\ CodeTarget(scraperFiles[i]) = Null
                 /\ NameTarget(scraperFiles[i]) = key

\* The mapping has two keys, one from a code link and one from a name link.
C28_Witness ==
  /\ Matching
  /\ Cardinality(DOMAIN finalData) = 2
  /\ stats.linkedByCode = 1
  /\ stats.linkedByName = 1

\* C29: the output file changes in one step only, the write that follows the
\* whole pass, and then holds the whole mapping; a run that has aborted, while
\* loading or at a profile, has left it as it was.
C29_OutputOnlyAfterPass ==
  /\ [][outputFile' # outputFile =>
          /\ pc = "pass"
          /\ k = Len(scraperFiles)
          /\ pc' = "done"
          /\ outputFile' = [written |-> TRUE, data |-> finalData]]_vars
  /\ [](pc # "done" => outputFile = NotWritten)

\* The run aborted at a profile with a mapping partly built and nothing written.
C29_Witness ==
  /\ pc = "failed"
  /\ k >= 1
  /\ finalData # EmptyMap
  /\ outputFile = NotWritten

\* -------------------------------------------------- claims on the suburb files
DistinctSuburbs ==
  \A p, q \in Procs : p # q => procs[p].suburb # procs[q].suburb
UrlCount(props, url) ==
  Cardinality({i \in 1..Len(props) : props[i].listing_url = url})
NoDuplicateUrls(props) == \A u \in UrlsOf(props) : UrlCount(props, u) = 1
StoredUrls == UNION {UrlsOf(disk[s].data) : s \in Suburbs}
Combined == combined.state = "json"

\* C21: scrapers started for distinct suburbs, under any interleaving of their
\* steps: a suburb file changes only in a step of the scraper of that suburb;
\* no read of a file fails, a scraper between two calls or at its end finds in
\* its file every listing it has handed to its storage; the combine run after
\* all of them neither fails nor misses a listing that any of them has saved.
\* A property is identified by its listing_url.
C21_DistinctSuburbsDoNotInterfere ==
  /\ [][DistinctSuburbs =>
          \A s \in Suburbs :
            disk'[s] # disk[s] =>
              \E p \in Procs : procs[p].suburb = s /\ procs'[p] # procs[p]]_vars
  /\ [](DistinctSuburbs =>
          /\ combined.state # "raised"
          /\ \A p \in Procs :
               /\ procs[p].pc # "raised"
               /\ procs[p].pc = "idle" /\ procs[p].calls >= 1 =>
                    /\ disk[procs[p].suburb].state = "json"
                    /\ UrlsOf(procs[p].scraped)
                         \subseteq UrlsOf(disk[procs[p].suburb].data)
               /\ Combined =>
                    UrlsOf(procs[p].scraped) \subseteq UrlsOf(combined.data))

C21_Witness ==
  /\ DistinctSuburbs
  /\ Combined
  /\ \A p \in Procs : procs[p].calls = MaxCalls
  /\ \E p, q \in Procs :
       /\ procs[p].call = "save"
       /\ procs[q].call = "append"
       /\ UrlsOf(procs[p].scraped) = ListingUrls
       /\ UrlsOf(procs[q].scraped) = ListingUrls

\* C22: the combined file holds every listing_url of every suburb file exactly
\* once and nothing else, and the number returned is the number of entries
\* written.
C22_CombinedHoldsEachUrlOnce ==
  Combined =>
    /\ UrlsOf(combined.data) = StoredUrls
    /\ NoDuplicateUrls(combined.data)
    /\ combined.count = Len(combined.data)

C22_Witness ==
  /\ Combined
  /\ combined.count = 2
  /\ \E s \in Suburbs : ~NoDuplicateUrls(disk[s].data)
  /\ \E s, t \in Suburbs :
       s # t /\ UrlsOf(disk[s].data) \cap UrlsOf(disk[t].data) # {}

\* C23 as claimed: a process that holds the shared lock of load_existing has a
\* complete JSON text in front of it, whatever save or append another process
\* is in.
C23_SharedLockSeesWholeFile ==
  \A s \in Suburbs : flock[s].sh # {} => disk[s].state = "json"

\* C24 as claimed: an append of the only process on a suburb, on a file without
\* two entries of one listing_url, leaves a file without two entries of one
\* listing_url and returns the number of entries it has added.
C24_AppendLeavesNoDuplicates ==
  [][\A p \in Procs :
       /\ procs[p].pc = "close"
       /\ procs'[p].pc = "idle"
       /\ procs[p].call = "append"
       /\ \A q \in Procs : q # p => procs[q].suburb # procs[p].suburb
       /\ NoDuplicateUrls(procs[p].existing)
       => /\ disk'[procs[p].suburb].state = "json"
          /\ NoDuplicateUrls(disk'[procs[p].suburb].data)
          /\ procs[p].returned
               = <<Len(disk'[procs[p].suburb].data) - Len(procs[p].existing)>>]_vars

\* ------------------------------------------------ claims on the batch scraper
InWhile == batchPc \in {"while", "scrape", "naplan", "write"}
Returns == batchPc \in {"scrape", "naplan", "write"} /\ batchPc' = "while"
SchoolFiles(dir) == [id \in (DOMAIN dir) \cap AcaraIds |-> dir[id]]

\* C26: for each school of the batch scrapeSchool is called at most
\* MAX_RETRIES times and not again after a success; the school is pushed to
\* the failed list exactly when the loop ends without success, which is after
\* MAX_RETRIES failed attempts; the loop then goes to the next school, and the
\* batch reaches the end of the list.
C26_BoundedRetriesAndProgress ==
  /\ [](attempts <= MAX_RETRIES)
  /\ [][batchPc = "while" /\ batchPc' = "scrape" => ~success]_vars
  /\ [][batchPc = "while" /\ batchPc' = "for" =>
          /\ schoolIndex' = schoolIndex + 1
          /\ IF success
             THEN failedSchools' = failedSchools
             ELSE /\ attempts = MAX_RETRIES
                  /\ failedSchools' = Append(failedSchools, acaraId)]_vars
  /\ [][failedSchools' # failedSchools => batchPc = "while" /\ batchPc' = "for"]_vars
  /\ <>(batchPc = "done" /\ schoolIndex = Len(batchSchools))

C26_Witness ==
  /\ batchPc = "done"
  /\ Len(batchSchools) = 2
  /\ Len(failedSchools) = 1
  /\ failedSchools[1] = batchSchools[1]
  /\ batchSchools[2] \in DOMAIN outputDir
  /\ attempts = MAX_RETRIES
  /\ success

C25_AcaraIdsStayUnique == UniqueAcaraIds(schools)

AddedRecords ==
  {schoolsToAdd[j] : j \in 1..Len(schoolsToAdd)}
    \cap {schools[i] : i \in 1..Len(schools)}
CodeOf(record) == ParseIntToString(record.StateProvinceId)
ProfilesOf(record) ==
  {i \in Handled : scraperFiles[i].acaraId = record.ACARAId}

\* C30 as claimed: every profile with the ACARAId of an added record is linked
\* by code to the catchment the record was added for.
C30_LinkedToItsCatchment ==
  Matching /\ updates = <<>> =>
    \A r \in AddedRecords : \A i \in ProfilesOf(r) :
      CodeTarget(scraperFiles[i]) = r.SchoolName

\* C30 as amended: the padded code of an added record canonicalizes to the
\* centre code found for its catchment, and a profile with the record's
\* ACARAId (the last record of that id) is linked by code to the last boundary
\* that carries this code: the catchment the record was added for when no
\* boundary of another name carries the code.
C30_LinkedToLastBoundaryOfItsCode ==
  Matching /\ updates = <<>> =>
    \A r \in AddedRecords :
      /\ \E j \in 1..Len(missingSchools) :
           /\ missingSchools[j].name = r.SchoolName
           /\ missingSchools[j].centreCode = CodeOf(r)
      /\ BoundariesWithCode(CodeOf(r)) # {}
      /\ \A i \in ProfilesOf(r) :
           schools[Max(RegistryPositions(r.ACARAId))] = r =>
             /\ CodeTarget(scraperFiles[i])
                  = geoJson[Max(BoundariesWithCode(CodeOf(r)))].name
             /\ (\A b \in BoundariesWithCode(CodeOf(r)) :
                   geoJson[b].name = r.SchoolName)
                  => CodeTarget(scraperFiles[i]) = r.SchoolName

C30_Witness ==
  /\ pc = "done"
  /\ updates = <<>>
  /\ \E r \in AddedRecords : \E i \in ProfilesOf(r) :
       /\ schools[Max(RegistryPositions(r.ACARAId))] = r
       /\ Len(r.StateProvinceId) = 9
       /\ Len(CodeOf(r)) = 3
       /\ finalData[r.SchoolName] = Entry(scraperFiles[i])
       /\ stats.linkedByCode >= 1

====
